---- MODULE Spec2Model ----
(***************************************************************************)
(* Verification model of the project-generation service:                   *)
(*   - the POST /api/generate-project request handler and the four         *)
(*     completion stages it chains, with its two publish steps;            *)
(*   - the Web Search agent (search, cache, batch search);                 *)
(*   - the Validation agent's scoring;                                     *)
(*   - the Knowledge Base maps.                                            *)
(* Each component has its own specification (SpecRoute, SpecSearch,        *)
(* SpecValidation, SpecKB) over the shared variables; the variables of the *)
(* other components stay at their initial values.                          *)
(***************************************************************************)
EXTENDS Integers, Sequences, FiniteSets, TLC

(* ------------------------------------------------------------------ *)
(* Bounds of the model                                                  *)
(* ------------------------------------------------------------------ *)
MaxIdeaLen == 2          \* longest project_idea string that is enumerated
MaxContributors == 1     \* longest contributors array that is enumerated
MaxSearches == 2         \* search invocations in one run (batch entries included)
MaxOps == 3              \* Knowledge Base operations in one run
MaxRuns == 2             \* orchestrator runs that are started

(* ------------------------------------------------------------------ *)
(* JavaScript values                                                    *)
(* ------------------------------------------------------------------ *)
Undefined == "undefined"
Null == "null"
Absent == "absent"       \* a property JSON.stringify dropped from a body

\* JSON.stringify drops properties whose value is undefined.
JsonField(v) == IF v = Undefined THEN Absent ELSE v

\* a || b on the values the model uses
OrElse(a, b) == IF a \in {Undefined, Null, ""} THEN b ELSE a

Space == " "
Letter == "a"

RECURSIVE StringsUpTo(_)
StringsUpTo(n) ==
  IF n = 0 THEN {<<>>}
  ELSE LET shorter == StringsUpTo(n - 1)
       IN shorter \cup {Append(s, c) : s \in {t \in shorter : Len(t) = n - 1},
                                       c \in {Space, Letter}}

\* String.prototype.trim: strip leading and trailing white space.
RECURSIVE TrimStart(_)
TrimStart(s) ==
  IF s # <<>> /\ Head(s) = Space THEN TrimStart(Tail(s)) ELSE s

RECURSIVE TrimEnd(_)
TrimEnd(s) ==
  IF s # <<>> /\ s[Len(s)] = Space THEN TrimEnd(SubSeq(s, 1, Len(s) - 1)) ELSE s

Trim(s) == TrimEnd(TrimStart(s))

(* ------------------------------------------------------------------ *)
(* State                                                                *)
(* ------------------------------------------------------------------ *)
VARIABLES
  \* process.env
  OPENAI_API_KEY, NOTION_API_KEY, NOTION_PARENT_PAGE_ID, GITHUB_TOKEN,
  SERPER_API_KEY,
  \* completion client
  llmCalls,         \* callLLM invocations of the handler's stages, in order
  llmRequests,      \* outbound completion requests of the stages, in order
  \* POST handler (route.js, and its earlier variant)
  variant,          \* "enhanced" (route.js) or "basic" (the earlier route)
  pc,               \* position of the handler
  body,             \* the request body as request.json() delivers it
  interpretation, milestones, assignments, artifacts,
  notionUrl, githubUrl,
  response,         \* the Response the handler returned
  inflight,         \* the stages whose completion request awaits its answer
  failed,           \* the stage function that rejected, and its Error message
  publishLog,       \* publish steps attempted, in order, with their outcome
  \* WebSearchAgent
  cache,            \* this.cache: cache key -> response
  searches,         \* the invocations of search, in order of their start
  batch,            \* the invocation of searchMultipleQueries
  providerRequests, \* requests sent to the search provider, in order (queries)
  \* ValidationAgent
  validation,       \* the invocation of validateProject
  \* KnowledgeBase
  patterns, insights, bestPractices, technologies,   \* this.knowledge.*
  now,              \* the clock that new Date() reads
  \* ResearchAgent
  research,         \* the invocation of conductResearch
  topicCalls,       \* the topics researchTopic was invoked with, in order
  \* EnhancementAgent
  enhancement,      \* the invocation of enhanceProject
  \* AgentOrchestrator
  orch,             \* the orchestrator instance and its current run
  runs,             \* the results of the runs that have returned, in order
  \* createNotionPage
  notion            \* the invocation of createNotionPage

envVars == <<OPENAI_API_KEY, NOTION_API_KEY, NOTION_PARENT_PAGE_ID, GITHUB_TOKEN,
             SERPER_API_KEY>>
llmVars == <<llmCalls, llmRequests>>
routeVars == <<variant, pc, body, interpretation, milestones, assignments,
               artifacts, notionUrl, githubUrl, response, inflight, failed,
               publishLog>>
searchVars == <<cache, searches, batch, providerRequests>>
validationVars == <<validation>>
kbVars == <<patterns, insights, bestPractices, technologies, now>>
researchVars == <<research, topicCalls>>
enhancementVars == <<enhancement>>
orchVars == <<orch, runs>>
notionVars == <<notion>>

(* ------------------------------------------------------------------ *)
(* Request bodies                                                       *)
(* ------------------------------------------------------------------ *)
\* project_idea: missing, null, a number, or a string
IdeaValues ==
  {[type |-> t, chars |-> <<>>] : t \in {Undefined, Null, "number"}}
    \cup {[type |-> "string", chars |-> s] : s \in StringsUpTo(MaxIdeaLen)}

\* contributors: missing, null, or an array of contributor objects; a
\* contributor either has its expertise array or lacks it
ContributorKinds == {"withExpertise", "noExpertise"}

RECURSIVE ArraysUpTo(_, _)
ArraysUpTo(S, n) ==
  IF n = 0 THEN {<<>>}
  ELSE LET shorter == ArraysUpTo(S, n - 1)
       IN shorter \cup {Append(s, c) : s \in {t \in shorter : Len(t) = n - 1},
                                       c \in S}

ContributorValues ==
  {[type |-> t, items |-> <<>>] : t \in {Undefined, Null}}
    \cup {[type |-> "array", items |-> a] :
            a \in ArraysUpTo(ContributorKinds, MaxContributors)}

\* request.json(): rejects on a malformed body, else the parsed value
Bodies ==
  {[kind |-> k, project_idea |-> [type |-> Undefined, chars |-> <<>>],
    contributors |-> [type |-> Undefined, items |-> <<>>]] :
      k \in {"malformed", "null"}}
    \cup {[kind |-> "object", project_idea |-> i, contributors |-> c] :
            i \in IdeaValues, c \in ContributorValues}

\* (mutation of IdeaCheck: the trim is forgotten, only !project_idea is tested)
IdeaCheckNoTrim(idea) ==
  CASE idea.type \in {Undefined, Null} -> "blank"
    [] idea.type = "number" -> "ok"
    [] idea.type = "string" -> IF idea.chars = <<>> THEN "blank" ELSE "ok"

\* !project_idea || !project_idea.trim()   (route.js line 15)
\* "throws" when project_idea has no trim method
IdeaCheck(idea) ==
  CASE idea.type \in {Undefined, Null} -> "blank"
    [] idea.type = "number" -> "throws"
    [] idea.type = "string" ->
         IF idea.chars = <<>> \/ Trim(idea.chars) = <<>> THEN "blank" ELSE "ok"

\* !contributors || contributors.length === 0   (route.js line 22)
ContributorsCheck(c) ==
  CASE c.type \in {Undefined, Null} -> "empty"
    [] c.type = "array" -> IF Len(c.items) = 0 THEN "empty" ELSE "ok"

(* ------------------------------------------------------------------ *)
(* Responses                                                            *)
(* ------------------------------------------------------------------ *)
NoResponse ==
  [status |-> 0, title |-> Absent, error |-> Absent,
   notion_url |-> Absent, github_url |-> Absent]

\* Response.json({ error: message }, { status })
ErrorResponse(code, message) ==
  [status |-> code, title |-> Absent, error |-> JsonField(message),
   notion_url |-> Absent, github_url |-> Absent]

\* (mutation of CatchResponse: the message of the caught error is dropped)
CatchResponseGeneric(message) ==
  ErrorResponse(500, "Failed to generate project")

\* the catch block of POST: error.message || "Failed to generate project"
CatchResponse(message) ==
  ErrorResponse(500, OrElse(message, "Failed to generate project"))

\* the success body of POST
SuccessResponse(interp, nUrl, gUrl) ==
  [status |-> 200, title |-> JsonField(interp.title), error |-> Absent,
   notion_url |-> JsonField(nUrl), github_url |-> JsonField(gUrl)]

(* ------------------------------------------------------------------ *)
(* Completion client and the values it parses                           *)
(* ------------------------------------------------------------------ *)
\* What can happen to the request of one callLLM invocation (llm.js 10-36):
\* fetch rejects, the status is not ok, the envelope has no
\* choices[0].message, the content is not JSON, or JSON.parse returns a value.
LLMOutcomes == {"reject", "notok", "badenvelope", "unparsable", "parsed"}

\* the message of the Error that callLLM throws for an outcome
LLMErrorMessage(outcome) ==
  CASE outcome = "nokey" -> "OPENAI_API_KEY not configured"
    [] outcome = "reject" -> "fetch failed"
    [] outcome = "notok" -> "OpenAI API error"
    [] outcome = "badenvelope" -> "TypeError"
    [] outcome = "unparsable" -> "SyntaxError"

TitleValues == {Undefined, Null, "T"}

\* What JSON.parse can deliver to interpretProject's caller: null, or an object
\* holding any subset of the fields the handler and the later stages read.
InterpretationValues ==
  {[kind |-> "null", title |-> Undefined, objectives |-> FALSE,
    technical_requirements |-> FALSE, primary_technologies |-> FALSE,
    success_criteria |-> FALSE, scope_assumptions |-> FALSE]}
    \cup [kind : {"object"}, title : TitleValues, objectives : BOOLEAN,
          technical_requirements : BOOLEAN, primary_technologies : BOOLEAN,
          success_criteria : BOOLEAN, scope_assumptions : BOOLEAN]

\* milestones: null, or an object whose milestones property is missing, an
\* array with an element lacking dependencies or tasks ("malformed"), an
\* array without any task ("empty"), or a well-formed array with tasks
MilestonesValues ==
  {[kind |-> "null", milestones |-> Undefined]}
    \cup [kind : {"object"},
          milestones : {Undefined, "malformed", "empty", "tasks"}]

\* assignments: null, or an object with or without its assignments array
AssignmentsValues ==
  {[kind |-> "null", assignments |-> Undefined]}
    \cup [kind : {"object"}, assignments : {Undefined, "array"}]

\* artifacts: null or an object
ArtifactsValues == {[kind |-> "null"], [kind |-> "object"]}

Unset == [kind |-> "unset"]

Stages == <<"interpretProject", "generateTasksAndMilestones",
            "assignTasksAndTimeline", "generateArtifacts">>

(* Building the user prompt of a stage: TRUE when the template throws a   *)
(* TypeError before callLLM is reached.                                    *)
\* llm.js 117-129: objectives.map, technical_requirements.map,
\* primary_technologies.join
PlanPromptThrows(interp) ==
  ~(interp.objectives /\ interp.technical_requirements
      /\ interp.primary_technologies)

\* llm.js 198-210: c.expertise.join for every contributor,
\* milestones.milestones.map, m.dependencies.length, m.tasks.map
AssignPromptThrows(ms, contributors) ==
  \/ \E i \in 1..Len(contributors.items) : contributors.items[i] = "noExpertise"
  \/ ms.milestones \in {Undefined, "malformed"}

\* llm.js 267-284: objectives.map, technical_requirements.map,
\* success_criteria.map, primary_technologies.join
ArtifactsPromptThrows(interp) ==
  ~(interp.objectives /\ interp.technical_requirements
      /\ interp.success_criteria /\ interp.primary_technologies)

(* The statement that follows each await in POST: TRUE when it throws.    *)
\* console.log("Interpretation complete:", interpretation.title)
AfterInterpretThrows(interp) == interp.kind = "null"

\* enhanced: milestones.milestones?.length || 0;  basic: milestones.milestones.length
AfterPlanThrows(v, ms) ==
  \/ ms.kind = "null"
  \/ v = "basic" /\ ms.milestones = Undefined

\* enhanced: assignments.assignments?.length || 0;  basic: assignments.assignments.length
AfterAssignThrows(v, as) ==
  \/ as.kind = "null"
  \/ v = "basic" /\ as.assignments = Undefined

\* enhanced: no property read;  basic: artifacts.readme?.length
AfterArtifactsThrows(v, ar) == v = "basic" /\ ar.kind = "null"

(* ------------------------------------------------------------------ *)
(* Publish routines                                                     *)
(* ------------------------------------------------------------------ *)
FetchOutcomes == {"reject", "notok", "ok"}
UrlValues == {Undefined, "url"}

Threw == [threw |-> TRUE, value |-> Undefined]
Returned(v) == [threw |-> FALSE, value |-> v]

\* createNotionPage: page is the outcome of the page-creation request, url the
\* url property of the created page, append the outcome of the block-append
\* requests ("reject": one of them rejects; "notok": one answers a non-ok
\* status, which is only logged).
createNotionPage(interp, ms, as, page, url, append) ==
  IF ~NOTION_API_KEY \/ ~NOTION_PARENT_PAGE_ID THEN Threw
  ELSE IF page # "ok" THEN Threw
  ELSE IF ~interp.objectives \/ ~interp.scope_assumptions THEN Threw
  ELSE IF ms.milestones \in {Undefined, "malformed"} THEN Threw
  ELSE IF ms.milestones = "tasks" /\ as.assignments = Undefined THEN Threw
  ELSE IF append = "reject" THEN Threw
  ELSE Returned(url)

\* createGitHubRepo: user and repo are the outcomes of the two requests that
\* precede the uploads, scaffoldThrows a TypeError of the file generators on
\* the plan's free-form fields, url the html_url of the created repository.
\* The uploads are caught one by one and never make the routine fail.
createGitHubRepo(interp, ar, user, repo, scaffoldThrows, url) ==
  IF ~GITHUB_TOKEN THEN Threw
  ELSE IF interp.title \in {Undefined, Null} THEN Threw      \* slugify(title)
  ELSE IF user # "ok" THEN Threw
  ELSE IF ~interp.objectives THEN Threw                     \* objectives[0]
  ELSE IF repo # "ok" THEN Threw
  ELSE IF ar.kind = "null" THEN Threw                       \* artifacts.readme
  ELSE IF ~interp.primary_technologies \/ scaffoldThrows THEN Threw
  ELSE Returned(url)

(* ------------------------------------------------------------------ *)
(* POST /api/generate-project                                           *)
(* ------------------------------------------------------------------ *)
Respond(r) ==
  /\ response' = r
  /\ pc' = "done"

\* lines 12-27: parse the body and validate the two required fields
Validate ==
  /\ pc = "start"
  /\ IF body.kind \in {"malformed", "null"}
       THEN Respond(CatchResponse(IF body.kind = "malformed"
                                    THEN "SyntaxError" ELSE "TypeError"))
     ELSE IF IdeaCheck(body.project_idea) = "throws"
       THEN Respond(CatchResponse("TypeError"))
     ELSE IF IdeaCheck(body.project_idea) = "blank"
       THEN Respond(ErrorResponse(400, "Project idea is required"))
     ELSE IF ContributorsCheck(body.contributors) = "empty"
       THEN Respond(ErrorResponse(400, "At least one contributor is required"))
     ELSE /\ pc' = "interpretProject"
          /\ UNCHANGED response
  /\ UNCHANGED <<notionVars, envVars, researchVars, enhancementVars, orchVars, validationVars, kbVars, searchVars, variant, body, interpretation, milestones, assignments,
                 artifacts, notionUrl, githubUrl, llmCalls, llmRequests,
                 inflight, failed, publishLog>>

\* A stage function up to its await: build the prompt, enter callLLM, send
\* the request (llm.js 3-26).
IssueStage(stage, promptThrows) ==
  /\ pc = stage
  /\ stage \notin inflight
  /\ IF promptThrows
       THEN /\ Respond(CatchResponse("TypeError"))
            /\ failed' = [stage |-> stage, message |-> "TypeError"]
            /\ UNCHANGED <<llmCalls, llmRequests, inflight>>
     ELSE IF ~OPENAI_API_KEY
       THEN /\ Respond(CatchResponse(LLMErrorMessage("nokey")))
            /\ failed' = [stage |-> stage, message |-> LLMErrorMessage("nokey")]
            /\ llmCalls' = Append(llmCalls, stage)
            /\ UNCHANGED <<llmRequests, inflight>>
     ELSE /\ llmCalls' = Append(llmCalls, stage)
          /\ llmRequests' = Append(llmRequests, stage)
          /\ inflight' = inflight \cup {stage}
          /\ UNCHANGED <<pc, response, failed>>
  /\ UNCHANGED <<notionVars, envVars, researchVars, enhancementVars, orchVars, validationVars, kbVars, searchVars, variant, body, interpretation, milestones, assignments,
                 artifacts, notionUrl, githubUrl, publishLog>>

CallInterpretProject == IssueStage("interpretProject", FALSE)

CallGenerateTasksAndMilestones ==
  IssueStage("generateTasksAndMilestones", PlanPromptThrows(interpretation))

CallAssignTasksAndTimeline ==
  IssueStage("assignTasksAndTimeline",
             AssignPromptThrows(milestones, body.contributors))

CallGenerateArtifacts ==
  IssueStage("generateArtifacts", ArtifactsPromptThrows(interpretation))

\* (mutation of StageFails: callLLM sends the request once more before it
\* gives up)
StageFailsAfterRetry ==
  /\ pc # "done"
  /\ \E stage \in inflight, outcome \in LLMOutcomes \ {"parsed"} :
       IF Len(SelectSeq(llmRequests, LAMBDA r : r = stage)) < 2
         THEN /\ llmRequests' = Append(llmRequests, stage)
              /\ UNCHANGED <<pc, response, failed, inflight>>
       ELSE /\ Respond(CatchResponse(LLMErrorMessage(outcome)))
            /\ failed' = [stage |-> stage, message |-> LLMErrorMessage(outcome)]
            /\ inflight' = inflight \ {stage}
            /\ UNCHANGED llmRequests
  /\ UNCHANGED <<notionVars, envVars, researchVars, enhancementVars, orchVars, validationVars, kbVars, searchVars, variant, body,
                 interpretation, milestones, assignments, artifacts, notionUrl,
                 githubUrl, llmCalls, publishLog>>

\* The answer of the request in flight fails callLLM (llm.js 28-36): the
\* rejection reaches the catch block of POST.
StageFails ==
  /\ pc # "done"
  /\ \E stage \in inflight, outcome \in LLMOutcomes \ {"parsed"} :
       /\ Respond(CatchResponse(LLMErrorMessage(outcome)))
       /\ failed' = [stage |-> stage, message |-> LLMErrorMessage(outcome)]
       /\ inflight' = inflight \ {stage}
  /\ UNCHANGED <<notionVars, envVars, researchVars, enhancementVars, orchVars, validationVars, kbVars, searchVars, variant, body, interpretation, milestones, assignments,
                 artifacts, notionUrl, githubUrl, llmCalls, llmRequests,
                 publishLog>>

\* after a parsed answer: the statement following the await, then on
Continue(stage, throws, next) ==
  /\ inflight' = inflight \ {stage}
  /\ UNCHANGED failed
  /\ IF throws THEN Respond(CatchResponse("TypeError"))
     ELSE pc' = next /\ UNCHANGED response

ReturnInterpretProject ==
  /\ pc = "interpretProject"
  /\ "interpretProject" \in inflight
  /\ \E v \in InterpretationValues :
       /\ interpretation' = v
       /\ Continue("interpretProject", AfterInterpretThrows(v), "generateTasksAndMilestones")
  /\ UNCHANGED <<notionVars, envVars, researchVars, enhancementVars, orchVars, validationVars, kbVars, searchVars, variant, body, milestones, assignments, artifacts,
                 notionUrl, githubUrl, llmCalls, llmRequests, publishLog>>

ReturnGenerateTasksAndMilestones ==
  /\ pc = "generateTasksAndMilestones"
  /\ "generateTasksAndMilestones" \in inflight
  /\ \E v \in MilestonesValues :
       /\ milestones' = v
       /\ Continue("generateTasksAndMilestones", AfterPlanThrows(variant, v), "assignTasksAndTimeline")
  /\ UNCHANGED <<notionVars, envVars, researchVars, enhancementVars, orchVars, validationVars, kbVars, searchVars, variant, body, interpretation, assignments, artifacts,
                 notionUrl, githubUrl, llmCalls, llmRequests, publishLog>>

\* (mutation of ReturnAssignTasksAndTimeline: the handler goes on to the
\* publish steps without generating the artifacts)
ReturnAssignSkipsArtifacts ==
  /\ pc = "assignTasksAndTimeline"
  /\ "assignTasksAndTimeline" \in inflight
  /\ \E v \in AssignmentsValues :
       /\ assignments' = v
       /\ Continue("assignTasksAndTimeline", AfterAssignThrows(variant, v),
                   "notion")
  /\ UNCHANGED <<notionVars, envVars, researchVars, enhancementVars, orchVars, validationVars, kbVars, searchVars, variant, body, interpretation, milestones, artifacts,
                 notionUrl, githubUrl, llmCalls, llmRequests, publishLog>>

ReturnAssignTasksAndTimeline ==
  /\ pc = "assignTasksAndTimeline"
  /\ "assignTasksAndTimeline" \in inflight
  /\ \E v \in AssignmentsValues :
       /\ assignments' = v
       /\ Continue("assignTasksAndTimeline", AfterAssignThrows(variant, v), "generateArtifacts")
  /\ UNCHANGED <<notionVars, envVars, researchVars, enhancementVars, orchVars, validationVars, kbVars, searchVars, variant, body, interpretation, milestones, artifacts,
                 notionUrl, githubUrl, llmCalls, llmRequests, publishLog>>

ReturnGenerateArtifacts ==
  /\ pc = "generateArtifacts"
  /\ "generateArtifacts" \in inflight
  /\ \E v \in ArtifactsValues :
       /\ artifacts' = v
       /\ Continue("generateArtifacts", AfterArtifactsThrows(variant, v), "notion")
  /\ UNCHANGED <<notionVars, envVars, researchVars, enhancementVars, orchVars, validationVars, kbVars, searchVars, variant, body, interpretation, milestones, assignments,
                 notionUrl, githubUrl, llmCalls, llmRequests, publishLog>>

\* (mutation of PublishNotion: the call is not wrapped, its rejection reaches
\* the catch block of POST)
PublishNotionUncaught ==
  /\ pc = "notion"
  /\ \E page \in FetchOutcomes, url \in UrlValues, append \in FetchOutcomes :
       LET r == createNotionPage(interpretation, milestones, assignments,
                                 page, url, append)
       IN /\ notionUrl' = IF r.threw THEN Null ELSE r.value
          /\ publishLog' = Append(publishLog, [step |-> "notion", result |-> r])
          /\ IF r.threw THEN Respond(CatchResponse("Notion API error"))
             ELSE pc' = "github" /\ UNCHANGED response
  /\ UNCHANGED <<notionVars, envVars, researchVars, enhancementVars, orchVars, validationVars, kbVars, searchVars, variant, body, interpretation, milestones, assignments,
                 artifacts, githubUrl, llmCalls, llmRequests, inflight, failed>>

\* lines 61-74: let notionUrl = null; try { notionUrl = await createNotionPage }
\* catch { log }
PublishNotion ==
  /\ pc = "notion"
  /\ \E page \in FetchOutcomes, url \in UrlValues, append \in FetchOutcomes :
       LET r == createNotionPage(interpretation, milestones, assignments,
                                 page, url, append)
       IN /\ notionUrl' = IF r.threw THEN Null ELSE r.value
          /\ publishLog' = Append(publishLog, [step |-> "notion", result |-> r])
  /\ pc' = "github"
  /\ UNCHANGED <<notionVars, envVars, researchVars, enhancementVars, orchVars, validationVars, kbVars, searchVars, variant, body, interpretation, milestones, assignments,
                 artifacts, githubUrl, response, llmCalls, llmRequests, inflight,
                 failed>>

\* lines 76-123: let githubUrl = null; try { githubUrl = await createGitHubRepo }
\* catch { log }; return the 200 response
PublishGitHub ==
  /\ pc = "github"
  /\ \E user \in FetchOutcomes, repo \in FetchOutcomes,
        scaffoldThrows \in BOOLEAN, url \in UrlValues :
       LET r == createGitHubRepo(interpretation, artifacts, user, repo,
                                 scaffoldThrows, url)
           g == IF r.threw THEN Null ELSE r.value
       IN /\ githubUrl' = g
          /\ publishLog' = Append(publishLog, [step |-> "github", result |-> r])
          /\ Respond(SuccessResponse(interpretation, notionUrl, g))
  /\ UNCHANGED <<notionVars, envVars, researchVars, enhancementVars, orchVars, validationVars, kbVars, searchVars, variant, body, interpretation, milestones, assignments,
                 artifacts, notionUrl, llmCalls, llmRequests, inflight, failed>>

NextRoute ==
  \/ Validate
  \/ CallInterpretProject
  \/ ReturnInterpretProject
  \/ CallGenerateTasksAndMilestones
  \/ ReturnGenerateTasksAndMilestones
  \/ CallAssignTasksAndTimeline
  \/ ReturnAssignTasksAndTimeline
  \/ CallGenerateArtifacts
  \/ ReturnGenerateArtifacts
  \/ StageFails
  \/ PublishNotion
  \/ PublishGitHub

RouteInit ==
  /\ variant \in {"enhanced", "basic"}
  /\ pc = "start"
  /\ body \in Bodies
  /\ interpretation = Unset
  /\ milestones = Unset
  /\ assignments = Unset
  /\ artifacts = Unset
  /\ notionUrl = Undefined
  /\ githubUrl = Undefined
  /\ response = NoResponse
  /\ inflight = {}
  /\ failed = [stage |-> "none", message |-> ""]
  /\ publishLog = <<>>

(* ------------------------------------------------------------------ *)
(* WebSearchAgent                                                       *)
(* ------------------------------------------------------------------ *)
\* the query strings and option objects that are enumerated
Queries == {<<"x">>, <<"y">>}
Options == {[numResults |-> Undefined], [numResults |-> "5"]}

\* JSON.stringify(options)
Stringify(o) ==
  IF o.numResults = Undefined THEN <<"{", "}">>
  ELSE <<"{", "\"", "n", "u", "m", "R", "e", "s", "u", "l", "t", "s", "\"",
         ":", "5", "}">>

\* `${query}-${JSON.stringify(options)}`
CacheKey(query, options) == query \o <<"-">> \o Stringify(options)

\* (mutation of CacheHas: the cache is never consulted)
CacheHasNever(key) == FALSE

\* this.cache.has(cacheKey)
CacheHas(key) == key \in DOMAIN cache

\* (mutation of CacheSet: an entry that is there is kept)
CacheSetIfAbsent(key, value) ==
  [k \in DOMAIN cache \cup {key} |-> IF k \in DOMAIN cache THEN cache[k] ELSE value]

\* this.cache.set(cacheKey, value)
CacheSet(key, value) ==
  [k \in DOMAIN cache \cup {key} |-> IF k = key THEN value ELSE cache[k]]

TopN == 5
\* lengths of the organic list a successful provider answer can carry
OrganicCounts == {0, TopN + 1}

\* searchResults.organic.slice(0, 5).map(...)
RelevantResults(organic) ==
  SubSeq(organic, 1, IF Len(organic) < TopN THEN Len(organic) ELSE TopN)

ConfigurationHint ==
  "Web search functionality is disabled. Configure SERPER_API_KEY to enable real-time research capabilities."

\* the fixed analysis of analyzeSearchResults for an empty organic list
UnavailableAnalysis == [kind |-> "unavailable", summary |-> ConfigurationHint]

\* what the analysis completion can parse to: null or an object
AnalysisValues ==
  {[kind |-> "null", summary |-> Undefined], [kind |-> "object", summary |-> "S"]}

\* the provider outcomes and the completion outcomes enumerated for the
\* agent's calls
SerperOutcomes == {"reject", "notok", "ok"}
SearchLLMOutcomes == {"notok", "parsed"}

NullAnalysis == [kind |-> "null", summary |-> Undefined]

\* A response object of search.  ref stands for the identity of the object:
\* the number of the invocation that created it.
SearchResponse(query, results, analysis, error, ref) ==
  [query |-> query, results |-> results, analysis |-> analysis,
   error |-> error, ref |-> ref]

\* { query, results: [], analysis: null, error: error.message }
FailureRecord(query, message, ref) ==
  SearchResponse(query, <<>>, NullAnalysis, message, ref)

NoResult == SearchResponse(<<>>, <<>>, NullAnalysis, Undefined, 0)

\* (mutation of searchWithSerperNoKey: a missing key is an error, as it is
\* in callLLM)
searchWithSerperNoKeyThrows == [threw |-> TRUE, value |-> <<>>]

\* searchWithSerper without SERPER_API_KEY: { organic: [], ... }, no request
searchWithSerperNoKey == [threw |-> FALSE, value |-> <<>>]

\* (mutation of SearchCatch: the error is not caught)
SearchRethrow(query, message, ref) ==
  [settled |-> "rejected", value |-> NoResult]

\* the catch block of search: the error becomes a failure record
SearchCatch(query, message, ref) ==
  [settled |-> "resolved", value |-> FailureRecord(query, message, ref)]

\* The synchronous part of search(query, options): the cache look-up and,
\* on a miss, searchWithSerper up to its request.  A task records what its
\* invocation did: requests sent to the provider, callLLM invocations (calls)
\* and completion requests sent, whether it threw, and whether it stored a
\* response that no clearCache has removed since (live).
StartTask(query, options, owner) ==
  LET key == CacheKey(query, options)
      base == [query |-> query, options |-> options, owner |-> owner,
               pc |-> "awaitSerper", settled |-> "pending", hit |-> FALSE,
               requests |-> 0, calls |-> 0, sent |-> 0, threw |-> FALSE,
               organic |-> <<>>, ready |-> FALSE, result |-> NoResult,
               live |-> FALSE]
  IN IF CacheHas(key)
       THEN [base EXCEPT !.pc = "done", !.settled = "resolved", !.hit = TRUE,
                         !.result = cache[key]]
     ELSE IF SERPER_API_KEY THEN [base EXCEPT !.requests = 1]
     ELSE base

\* search(query, options), called on its own
Search(query, options) ==
  /\ Len(searches) < MaxSearches
  /\ LET task == StartTask(query, options, "search")
     IN /\ searches' = Append(searches, task)
        /\ providerRequests' = IF task.requests = 1
                                 THEN Append(providerRequests, query)
                               ELSE providerRequests
  /\ UNCHANGED <<notionVars, envVars, researchVars, enhancementVars, orchVars, validationVars, kbVars, llmVars, routeVars, cache, batch>>

\* (mutation of Fail: the failure record is stored like a response)
FailCaching(t, message, calls) ==
  LET c == SearchCatch(searches[t].query, message, t)
  IN /\ searches' = [searches EXCEPT ![t].pc = "done",
                                     ![t].settled = c.settled,
                                     ![t].threw = TRUE,
                                     ![t].calls = calls,
                                     ![t].result = c.value]
     /\ cache' = CacheSet(CacheKey(searches[t].query, searches[t].options),
                          c.value)

\* the task ends in the catch block of search (or, uncaught, rejects)
Fail(t, message, calls) ==
  LET c == SearchCatch(searches[t].query, message, t)
  IN /\ searches' = [searches EXCEPT ![t].pc = "done",
                                     ![t].settled = c.settled,
                                     ![t].threw = TRUE,
                                     ![t].calls = calls,
                                     ![t].result = c.value]
     /\ UNCHANGED cache

\* analyzeSearchResults up to its await, entered with the provider's answer
Analyze(t, organic) ==
  IF organic = <<>>
    THEN /\ searches' = [searches EXCEPT ![t].pc = "awaitAnalysis",
                                         ![t].organic = organic,
                                         ![t].ready = TRUE]
         /\ UNCHANGED cache
  ELSE IF ~OPENAI_API_KEY
    THEN Fail(t, LLMErrorMessage("nokey"), 1)
  ELSE /\ searches' = [searches EXCEPT ![t].pc = "awaitAnalysis",
                                       ![t].organic = organic,
                                       ![t].calls = 1,
                                       ![t].sent = 1]
       /\ UNCHANGED cache

\* searchWithSerper settles (lines 58-71, or 40-49 without a key); search goes
\* on into analyzeSearchResults
SerperReturns(t) ==
  /\ t \in 1..Len(searches)
  /\ searches[t].pc = "awaitSerper"
  /\ IF ~SERPER_API_KEY
       THEN IF searchWithSerperNoKey.threw
              THEN Fail(t, "SERPER_API_KEY not configured", 0)
            ELSE Analyze(t, searchWithSerperNoKey.value)
     ELSE \E outcome \in SerperOutcomes, n \in OrganicCounts :
            IF outcome = "reject" THEN Fail(t, "fetch failed", 0)
            ELSE IF outcome = "notok" THEN Fail(t, "Serper API error", 0)
            ELSE Analyze(t, [i \in 1..n |-> i])
  /\ UNCHANGED <<notionVars, envVars, researchVars, enhancementVars, orchVars, validationVars, kbVars, llmVars, routeVars, batch, providerRequests>>

\* analyzeSearchResults settles; search stores and returns the response
AnalysisReturns(t) ==
  /\ t \in 1..Len(searches)
  /\ searches[t].pc = "awaitAnalysis"
  /\ LET task == searches[t]
         key == CacheKey(task.query, task.options)
         Store(r) ==
           /\ cache' = CacheSet(key, r)
           /\ searches' = [searches EXCEPT ![t].pc = "done",
                                           ![t].settled = "resolved",
                                           ![t].result = r,
                                           ![t].live = TRUE]
     IN IF task.ready
          THEN Store(SearchResponse(task.query, <<>>, UnavailableAnalysis,
                                    Undefined, t))
        ELSE \E outcome \in SearchLLMOutcomes :
               IF outcome # "parsed"
                 THEN Fail(t, LLMErrorMessage(outcome), task.calls)
               ELSE \E a \in AnalysisValues :
                      Store(SearchResponse(task.query,
                                           RelevantResults(task.organic),
                                           a, Undefined, t))
  /\ UNCHANGED <<notionVars, envVars, researchVars, enhancementVars, orchVars, validationVars, kbVars, llmVars, routeVars, batch, providerRequests>>

\* clearCache()
ClearCache ==
  /\ cache' = <<>>
  /\ searches' = [t \in 1..Len(searches) |-> [searches[t] EXCEPT !.live = FALSE]]
  /\ UNCHANGED <<notionVars, envVars, researchVars, enhancementVars, orchVars, validationVars, kbVars, llmVars, routeVars, batch, providerRequests>>

\* queries.map(query => this.search(query)): the synchronous parts of all
\* the searches run one after the other before anything else happens
RECURSIVE StartAll(_, _)
StartAll(queries, started) ==
  IF queries = <<>> THEN started
  ELSE StartAll(Tail(queries),
                Append(started,
                       StartTask(Head(queries), [numResults |-> Undefined],
                                 "batch")))

IdleBatch ==
  [pc |-> "idle", queries |-> <<>>, tasks |-> <<>>, individualResults |-> <<>>,
   synthesis |-> Undefined, message |-> Undefined, calls |-> 0, sent |-> 0]

\* searchMultipleQueries(queries) up to the await of Promise.all
SearchMultipleQueries(queries) ==
  /\ batch.pc = "idle"
  /\ Len(searches) + Len(queries) <= MaxSearches
  /\ LET started == StartAll(queries, <<>>)
         n == Len(searches)
     IN /\ searches' = searches \o started
        /\ providerRequests' =
             providerRequests \o
               SelectSeq([i \in 1..Len(started) |->
                            IF started[i].requests = 1 THEN started[i].query
                            ELSE <<>>],
                         LAMBDA q : q # <<>>)
        /\ batch' = [IdleBatch EXCEPT !.pc = "searching", !.queries = queries,
                                      !.tasks = [i \in 1..Len(started) |-> n + i]]
  /\ UNCHANGED <<notionVars, envVars, researchVars, enhancementVars, orchVars, validationVars, kbVars, llmVars, routeVars, cache>>

\* (mutation of BatchJoin: the synthesis does not wait for every search, as
\* Promise.race would make it)
BatchJoinEarly ==
  /\ batch.pc = "searching"
  /\ \/ batch.tasks = <<>>
     \/ \E i \in 1..Len(batch.tasks) : searches[batch.tasks[i]].pc = "done"
  /\ LET results == [i \in 1..Len(batch.tasks) |->
                       searches[batch.tasks[i]].result]
     IN IF ~OPENAI_API_KEY
          THEN batch' = [batch EXCEPT !.pc = "rejected", !.calls = 1,
                                      !.message = LLMErrorMessage("nokey")]
        ELSE batch' = [batch EXCEPT !.pc = "awaitSynthesis", !.calls = 1,
                                    !.sent = 1, !.individualResults = results]
  /\ UNCHANGED <<notionVars, envVars, researchVars, enhancementVars, orchVars, validationVars, kbVars, llmVars, routeVars, cache, searches, providerRequests>>

\* Promise.all settles: it rejects if a search rejected, else the results
\* go, in the order of the queries, into synthesizeMultipleSearches
BatchJoin ==
  /\ batch.pc = "searching"
  /\ \A i \in 1..Len(batch.tasks) : searches[batch.tasks[i]].pc = "done"
  /\ IF \E i \in 1..Len(batch.tasks) :
          searches[batch.tasks[i]].settled = "rejected"
       THEN batch' = [batch EXCEPT !.pc = "rejected",
                                   !.message = "search rejected"]
     ELSE LET results == [i \in 1..Len(batch.tasks) |->
                            searches[batch.tasks[i]].result]
          IN IF ~OPENAI_API_KEY
               THEN batch' = [batch EXCEPT !.pc = "rejected", !.calls = 1,
                                           !.message = LLMErrorMessage("nokey")]
             ELSE batch' = [batch EXCEPT !.pc = "awaitSynthesis", !.calls = 1,
                                         !.sent = 1,
                                         !.individualResults = results]
  /\ UNCHANGED <<notionVars, envVars, researchVars, enhancementVars, orchVars, validationVars, kbVars, llmVars, routeVars, cache, searches, providerRequests>>

\* synthesizeMultipleSearches settles; searchMultipleQueries returns
SynthesisReturns ==
  /\ batch.pc = "awaitSynthesis"
  /\ \E outcome \in SearchLLMOutcomes :
       IF outcome # "parsed"
         THEN batch' = [batch EXCEPT !.pc = "rejected",
                                     !.individualResults = <<>>,
                                     !.message = LLMErrorMessage(outcome)]
       ELSE batch' = [batch EXCEPT !.pc = "resolved", !.synthesis = "synthesis"]
  /\ UNCHANGED <<notionVars, envVars, researchVars, enhancementVars, orchVars, validationVars, kbVars, llmVars, routeVars, cache, searches, providerRequests>>

NextSearch ==
  \/ \E q \in Queries, o \in Options : Search(q, o)
  \/ \E t \in 1..MaxSearches : SerperReturns(t)
  \/ \E t \in 1..MaxSearches : AnalysisReturns(t)
  \/ ClearCache
  \/ \E queries \in ArraysUpTo(Queries, MaxSearches) : SearchMultipleQueries(queries)
  \/ BatchJoin
  \/ SynthesisReturns

SearchInit ==
  /\ cache = <<>>
  /\ searches = <<>>
  /\ batch = IdleBatch
  /\ providerRequests = <<>>

(* ------------------------------------------------------------------ *)
(* ValidationAgent                                                      *)
(* ------------------------------------------------------------------ *)
validationCriteria ==
  <<"technical_feasibility", "market_viability", "resource_adequacy",
    "timeline_realism", "risk_assessment", "completeness_check",
    "quality_standards", "best_practices_compliance">>

\* the scores a criterion's completion is enumerated with
ScoreValues == {0, 74, 75, 80}

\* what validateCriterion can resolve to: an object with or without a score
CriterionResults ==
  {[hasScore |-> FALSE, score |-> 0]}
    \cup {[hasScore |-> TRUE, score |-> n] : n \in ScoreValues}

\* result.score || 0
ScoreOrZero(result) ==
  IF result.hasScore /\ result.score # 0 THEN result.score ELSE 0

\* scores.reduce((a, b) => a + b, 0)
RECURSIVE Sum(_)
Sum(scores) == IF scores = <<>> THEN 0 ELSE Head(scores) + Sum(Tail(scores))

\* (mutation of MathRound: the quotient is truncated)
MathFloor(num, den) == num \div den

\* Math.round(num / den) for den > 0: the nearest integer, halves go up
MathRound(num, den) == (2 * num + den) \div (2 * den)

\* calculateOverallScore(validationResults)
calculateOverallScore(results) ==
  LET scores == [i \in 1..Len(results) |-> ScoreOrZero(results[i])]
  IN IF Len(scores) > 0 THEN MathRound(Sum(scores), Len(scores)) ELSE 0

ImprovementThreshold == 75

ValidationIdle ==
  [pc |-> "idle", criterion |-> 0, results |-> <<>>, overallScore |-> 0,
   improvementNeeded |-> FALSE, suggestions |-> "empty", report |-> Undefined,
   message |-> Undefined, calls |-> 0]

\* the outcomes of a completion call made by the agent
ValidationLLMOutcomes ==
  IF OPENAI_API_KEY THEN {"notok", "parsed"} ELSE {"nokey"}

\* validateProject(project) up to the await of the first criterion
ValidateProject ==
  /\ validation.pc = "idle"
  /\ validation' = [ValidationIdle EXCEPT !.pc = "awaitCriterion",
                                          !.criterion = 1, !.calls = 1]
  /\ UNCHANGED <<notionVars, envVars, researchVars, enhancementVars, orchVars, llmVars, routeVars, searchVars, kbVars>>

\* the awaited validateCriterion settles: its result is stored under the
\* criterion, and the loop goes on to the next criterion or, after the last
\* one, to the score, the flag and the next completion call
CriterionReturns ==
  /\ validation.pc = "awaitCriterion"
  /\ \E outcome \in ValidationLLMOutcomes :
       IF outcome # "parsed"
         THEN validation' = [validation EXCEPT !.pc = "rejected",
                                               !.message = LLMErrorMessage(outcome)]
       ELSE \E result \in CriterionResults :
              LET results == Append(validation.results,
                                    [criterion |-> validationCriteria[validation.criterion],
                                     hasScore |-> result.hasScore,
                                     score |-> result.score])
                  overall == calculateOverallScore(results)
                  needed == overall < ImprovementThreshold
              IN IF validation.criterion < Len(validationCriteria)
                   THEN validation' = [validation EXCEPT
                                         !.results = results,
                                         !.criterion = validation.criterion + 1,
                                         !.calls = validation.calls + 1]
                 ELSE validation' = [validation EXCEPT
                                       !.results = results,
                                       !.overallScore = overall,
                                       !.improvementNeeded = needed,
                                       !.calls = validation.calls + 1,
                                       !.pc = IF needed THEN "awaitSuggestions"
                                              ELSE "awaitReport"]
  /\ UNCHANGED <<notionVars, envVars, researchVars, enhancementVars, orchVars, llmVars, routeVars, searchVars, kbVars>>

\* generateImprovementSuggestions settles; the report is requested
SuggestionsReturn ==
  /\ validation.pc = "awaitSuggestions"
  /\ \E outcome \in ValidationLLMOutcomes :
       IF outcome # "parsed"
         THEN validation' = [validation EXCEPT !.pc = "rejected",
                                               !.message = LLMErrorMessage(outcome)]
       ELSE validation' = [validation EXCEPT !.pc = "awaitReport",
                                             !.suggestions = "generated",
                                             !.calls = validation.calls + 1]
  /\ UNCHANGED <<notionVars, envVars, researchVars, enhancementVars, orchVars, llmVars, routeVars, searchVars, kbVars>>

\* generateValidationReport settles; validateProject returns
ReportReturns ==
  /\ validation.pc = "awaitReport"
  /\ \E outcome \in ValidationLLMOutcomes :
       IF outcome # "parsed"
         THEN validation' = [validation EXCEPT !.pc = "rejected",
                                               !.message = LLMErrorMessage(outcome)]
       ELSE validation' = [validation EXCEPT !.pc = "resolved",
                                             !.report = "report"]
  /\ UNCHANGED <<notionVars, envVars, researchVars, enhancementVars, orchVars, llmVars, routeVars, searchVars, kbVars>>

NextValidation ==
  \/ ValidateProject
  \/ CriterionReturns
  \/ SuggestionsReturn
  \/ ReportReturns

ValidationInit == validation = ValidationIdle

(* ------------------------------------------------------------------ *)
(* KnowledgeBase                                                        *)
(* ------------------------------------------------------------------ *)
\* the payloads of the learning items that are enumerated (strings)
Payloads == {<<"A", "a">>, <<"B", "B">>, <<"C">>}

\* String.prototype.charCodeAt on the characters that occur
CharCode(c) ==
  CASE c = "\"" -> 34
    [] c = "A" -> 65
    [] c = "B" -> 66
    [] c = "C" -> 67
    [] c = "a" -> 97

\* JSON.stringify of a string without characters to escape
JSONStringify(payload) == <<"\"">> \o payload \o <<"\"">>

\* A 32-bit integer is kept as two 16-bit halves [hi, lo].
Word == 65536
Zero32 == [hi |-> 0, lo |-> 0]

\* reduction modulo 2^32 of hi * 2^16 + lo, for any integers hi and lo
Wrap32(hi, lo) ==
  LET l == lo % Word
      carry == (lo - l) \div Word
  IN [hi |-> (hi + carry) % Word, lo |-> l]

\* hash = ((hash << 5) - hash) + char; hash = hash & hash
HashStep(hash, char) ==
  LET shifted == Wrap32(hash.hi * 32, hash.lo * 32)
  IN Wrap32(shifted.hi - hash.hi, shifted.lo - hash.lo + char)

\* Math.abs of the signed value of a 32-bit integer, as an unsigned magnitude
MathAbs(hash) ==
  IF hash.hi >= Word \div 2 THEN Wrap32(0 - hash.hi, 0 - hash.lo) ELSE hash

Digits36 ==
  <<"0", "1", "2", "3", "4", "5", "6", "7", "8", "9", "a", "b", "c", "d", "e",
    "f", "g", "h", "i", "j", "k", "l", "m", "n", "o", "p", "q", "r", "s", "t",
    "u", "v", "w", "x", "y", "z">>

\* Number.prototype.toString(36) of a non-negative integer
RECURSIVE ToDigits36(_)
ToDigits36(n) ==
  IF n = Zero32 THEN <<>>
  ELSE LET radix == Len(Digits36)
           rest == (n.hi % radix) * Word + n.lo
           quotient == [hi |-> n.hi \div radix, lo |-> rest \div radix]
       IN Append(ToDigits36(quotient), Digits36[(rest % radix) + 1])

ToString36(n) == IF n = Zero32 THEN <<"0">> ELSE ToDigits36(n)

RECURSIVE HashChars(_, _)
HashChars(str, hash) ==
  IF str = <<>> THEN hash
  ELSE HashChars(Tail(str), HashStep(hash, CharCode(Head(str))))

\* hashString(str)
hashString(str) == ToString36(MathAbs(HashChars(str, Zero32)))

generatePatternKey(pattern) ==
  <<"p", "a", "t", "t", "e", "r", "n", "_">> \o hashString(JSONStringify(pattern))
generateInsightKey(insight) ==
  <<"i", "n", "s", "i", "g", "h", "t", "_">> \o hashString(JSONStringify(insight))
generateBestPracticeKey(practice) ==
  <<"p", "r", "a", "c", "t", "i", "c", "e", "_">>
    \o hashString(JSONStringify(practice))
generateTechnologyKey(learning) ==
  <<"t", "e", "c", "h", "_">> \o hashString(JSONStringify(learning))

\* Map.prototype.set
MapSet(map, key, value) ==
  [k \in DOMAIN map \cup {key} |-> IF k = key THEN value ELSE map[k]]

EmptyMap == <<>>

\* new Map(entries) for a list of [key, value] pairs
RECURSIVE MapFromEntries(_, _)
MapFromEntries(entries, map) ==
  IF entries = <<>> THEN map
  ELSE MapFromEntries(Tail(entries),
                      MapSet(map, Head(entries)[1], Head(entries)[2]))

PatternTypes == {"success", "failure"}
InsightCategories == {"technical", "market"}

\* a pattern's confidence field: undefined until a strength update sets it,
\* then 1.1^increased * 0.9^decreased
NoConfidence == [defined |-> FALSE, increased |-> 0, decreased |-> 0]

\* a time stamp that was never set
Never == 0

NewPattern(type, pattern) ==
  [pattern |-> pattern, type |-> type, occurrences |-> 0, projects |-> <<>>,
   lastSeen |-> Never, confidence |-> NoConfidence, lastValidated |-> Never,
   evidence |-> <<>>]
NewInsight(category, insight) ==
  [insight |-> insight, category |-> category, confidence |-> 1,
   sources |-> <<>>, lastUpdated |-> Never]
NewBestPractice(practice) ==
  [practice |-> practice, effectiveness |-> 1, contexts |-> <<>>,
   lastValidated |-> Never]
NewTechnologyLearning(learning) ==
  [learning |-> learning, reliability |-> 1, contexts |-> <<>>,
   lastUpdated |-> Never]

\* (mutation of GetOr: the stored entry is not read)
GetFresh(map, key, fresh) == fresh

\* map.get(key) || fresh
GetOr(map, key, fresh) == IF key \in DOMAIN map THEN map[key] ELSE fresh

\* every operation happens at a later time than the one before
Tick ==
  /\ now < MaxOps
  /\ now' = now + 1

storePattern(type, pattern) ==
  /\ Tick
  /\ LET key == generatePatternKey(pattern)
         existing == GetOr(patterns, key, NewPattern(type, pattern))
     IN patterns' = MapSet(patterns, key,
                           [existing EXCEPT !.occurrences = @ + 1,
                                            !.lastSeen = now'])
  /\ UNCHANGED <<notionVars, envVars, researchVars, enhancementVars, orchVars, llmVars, routeVars, searchVars, validationVars,
                 insights, bestPractices, technologies>>

storeInsight(category, insight) ==
  /\ Tick
  /\ LET key == generateInsightKey(insight)
         existing == GetOr(insights, key, NewInsight(category, insight))
     IN insights' = MapSet(insights, key,
                           [existing EXCEPT !.confidence = @ + 1,
                                            !.lastUpdated = now'])
  /\ UNCHANGED <<notionVars, envVars, researchVars, enhancementVars, orchVars, llmVars, routeVars, searchVars, validationVars,
                 patterns, bestPractices, technologies>>

storeBestPractice(practice) ==
  /\ Tick
  /\ LET key == generateBestPracticeKey(practice)
         existing == GetOr(bestPractices, key, NewBestPractice(practice))
     IN bestPractices' = MapSet(bestPractices, key,
                                [existing EXCEPT !.effectiveness = @ + 1,
                                                 !.lastValidated = now'])
  /\ UNCHANGED <<notionVars, envVars, researchVars, enhancementVars, orchVars, llmVars, routeVars, searchVars, validationVars,
                 patterns, insights, technologies>>

storeTechnologyLearning(learning) ==
  /\ Tick
  /\ LET key == generateTechnologyKey(learning)
         existing == GetOr(technologies, key, NewTechnologyLearning(learning))
     IN technologies' = MapSet(technologies, key,
                               [existing EXCEPT !.reliability = @ + 1,
                                                !.lastUpdated = now'])
  /\ UNCHANGED <<notionVars, envVars, researchVars, enhancementVars, orchVars, llmVars, routeVars, searchVars, validationVars,
                 patterns, insights, bestPractices>>

StrengthChanges == {"increased", "decreased", "stable"}

StrengthUpdates ==
  [pattern : Payloads, strength_change : StrengthChanges, evidence : {"e"}]

\* the values of analysis.pattern_strength_updates that are enumerated: no
\* list, one update, and two updates of one pattern
StrengthUpdateLists ==
  {<<>>} \cup {<<u>> : u \in StrengthUpdates}
    \cup {<<u, v>> : u, v \in {w \in StrengthUpdates :
                                 /\ w.pattern = <<"A", "a">>
                                 /\ w.strength_change # "stable"}}

\* (mutation of ApplyStrengthChange: a decrease lowers the occurrences)
ApplyStrengthChangeToOccurrences(existing, change) ==
  IF change = "decreased"
    THEN [existing EXCEPT !.occurrences = @ - 1]
  ELSE existing

\* existing.confidence = (existing.confidence || 1) * 1.1, or * 0.9
ApplyStrengthChange(existing, change) ==
  IF change = "increased"
    THEN [existing EXCEPT !.confidence.defined = TRUE,
                          !.confidence.increased = @ + 1]
  ELSE IF change = "decreased"
    THEN [existing EXCEPT !.confidence.defined = TRUE,
                          !.confidence.decreased = @ + 1]
  ELSE existing

\* the loop of updatePatternStrengths
RECURSIVE ApplyUpdates(_, _, _)
ApplyUpdates(updates, map, time) ==
  IF updates = <<>> THEN map
  ELSE LET update == Head(updates)
           key == generatePatternKey(update.pattern)
       IN IF key \in DOMAIN map
            THEN LET changed == ApplyStrengthChange(map[key],
                                                    update.strength_change)
                 IN ApplyUpdates(Tail(updates),
                                 MapSet(map, key,
                                        [changed EXCEPT
                                           !.lastValidated = time,
                                           !.evidence = Append(@, update.evidence)]),
                                 time)
          ELSE ApplyUpdates(Tail(updates), map, time)

updatePatternStrengths(updates) ==
  /\ Tick
  /\ patterns' = ApplyUpdates(updates, patterns, now')
  /\ UNCHANGED <<notionVars, envVars, researchVars, enhancementVars, orchVars, llmVars, routeVars, searchVars, validationVars,
                 insights, bestPractices, technologies>>

\* a property of the imported object: missing, or a list of entries
NoEntries == [present |-> FALSE, entries |-> <<>>]
Entries(list) == [present |-> TRUE, entries |-> list]

\* the objects importKnowledge is enumerated with: nothing to import, an
\* empty pattern list, and one entry with strength 1 in every category
ImportValues ==
  LET item == <<"A", "a">>
  IN {[patterns |-> NoEntries, insights |-> NoEntries,
       bestPractices |-> NoEntries, technologies |-> NoEntries],
      [patterns |-> Entries(<<>>), insights |-> NoEntries,
       bestPractices |-> NoEntries, technologies |-> NoEntries],
      [patterns |-> Entries(<< <<generatePatternKey(item),
                                 [NewPattern("success", item)
                                    EXCEPT !.occurrences = 1] >> >>),
       insights |-> Entries(<< <<generateInsightKey(item),
                                 NewInsight("technical", item)>> >>),
       bestPractices |-> Entries(<< <<generateBestPracticeKey(item),
                                      NewBestPractice(item)>> >>),
       technologies |-> Entries(<< <<generateTechnologyKey(item),
                                     NewTechnologyLearning(item)>> >>)]}

\* if (knowledgeData.x) this.knowledge.x = new Map(knowledgeData.x)
Imported(field, map) ==
  IF field.present THEN MapFromEntries(field.entries, EmptyMap) ELSE map

importKnowledge(knowledgeData) ==
  /\ Tick
  /\ patterns' = Imported(knowledgeData.patterns, patterns)
  /\ insights' = Imported(knowledgeData.insights, insights)
  /\ bestPractices' = Imported(knowledgeData.bestPractices, bestPractices)
  /\ technologies' = Imported(knowledgeData.technologies, technologies)
  /\ UNCHANGED <<notionVars, envVars, researchVars, enhancementVars, orchVars, llmVars, routeVars, searchVars, validationVars>>

clearKnowledge ==
  /\ Tick
  /\ patterns' = EmptyMap
  /\ insights' = EmptyMap
  /\ bestPractices' = EmptyMap
  /\ technologies' = EmptyMap
  /\ UNCHANGED <<notionVars, envVars, researchVars, enhancementVars, orchVars, llmVars, routeVars, searchVars, validationVars>>

NextKB ==
  \/ \E type \in PatternTypes, pattern \in Payloads : storePattern(type, pattern)
  \/ \E category \in InsightCategories, insight \in Payloads :
       storeInsight(category, insight)
  \/ \E practice \in Payloads : storeBestPractice(practice)
  \/ \E learning \in Payloads : storeTechnologyLearning(learning)
  \/ \E updates \in StrengthUpdateLists : updatePatternStrengths(updates)
  \/ \E knowledgeData \in ImportValues : importKnowledge(knowledgeData)
  \/ clearKnowledge

KBInit ==
  /\ patterns = EmptyMap
  /\ insights = EmptyMap
  /\ bestPractices = EmptyMap
  /\ technologies = EmptyMap
  /\ now = 0

(* ------------------------------------------------------------------ *)
(* ResearchAgent                                                        *)
(* ------------------------------------------------------------------ *)
\* this.knowledgeDomains (strings, as their characters)
knowledgeDomains ==
  <<<<"t", "e", "c", "h", "n", "o", "l", "o", "g", "y">>,
    <<"m", "a", "r", "k", "e", "t">>,
    <<"c", "o", "m", "p", "e", "t", "i", "t", "i", "o", "n">>,
    <<"r", "e", "g", "u", "l", "a", "t", "i", "o", "n", "s">>,
    <<"b", "e", "s", "t", "_", "p", "r", "a", "c", "t", "i", "c", "e", "s">>,
    <<"a", "r", "c", "h", "i", "t", "e", "c", "t", "u", "r", "e">>,
    <<"s", "e", "c", "u", "r", "i", "t", "y">>,
    <<"s", "c", "a", "l", "a", "b", "i", "l", "i", "t", "y">>>>

\* the research topics that are enumerated (strings, as their characters)
MarketTopic == <<"M", "a", "r", "k", "e", "t", "s">>
TechTopic == <<"t", "e", "c", "h">>
MarketTechTopic == <<"f", "i", "n", "t", "e", "c", "h", " ", "m", "a", "r", "k", "e", "t">>
OtherTopic == <<"l", "a", "w">>
Topics == {MarketTopic, TechTopic, MarketTechTopic, OtherTopic}

\* obj[key] = value on an object kept as its [key, value] entries in
\* insertion order: an existing key keeps its place
ObjectSet(entries, key, value) ==
  IF \E i \in 1..Len(entries) : entries[i].key = key
    THEN [i \in 1..Len(entries) |->
            IF entries[i].key = key THEN [key |-> key, value |-> value]
            ELSE entries[i]]
  ELSE Append(entries, [key |-> key, value |-> value])

ObjectKeys(entries) == {entries[i].key : i \in 1..Len(entries)}

ResearchIdle ==
  [pc |-> "idle", caller |-> "none", topics |-> <<>>, topic |-> 0,
   issued |-> 0, completed |-> 0, individualResearch |-> <<>>,
   synthesisIssued |-> FALSE, synthesisInput |-> <<>>,
   message |-> Undefined]

\* (mutation of StartResearch: the calls of all the topics are issued at
\* once, as Promise.all over a map would)
StartResearchAll(topics, caller) ==
  IF topics = <<>>
    THEN [ResearchIdle EXCEPT !.pc = "awaitSynthesis", !.caller = caller,
                              !.synthesisIssued = TRUE]
  ELSE [ResearchIdle EXCEPT !.pc = "awaitTopic", !.caller = caller,
                            !.topics = topics, !.topic = 1,
                            !.issued = Len(topics)]

\* conductResearch(researchTopics) up to its first await: the first topic's
\* researchTopic, or the synthesis when there is no topic
StartResearch(topics, caller) ==
  IF topics = <<>>
    THEN [ResearchIdle EXCEPT !.pc = "awaitSynthesis", !.caller = caller,
                              !.synthesisIssued = TRUE]
  ELSE [ResearchIdle EXCEPT !.pc = "awaitTopic", !.caller = caller,
                            !.topics = topics, !.topic = 1, !.issued = 1]

\* the topics a started invocation adds to the researchTopic invocations
TopicCall(topic) == [topic |-> topic, webResearch |-> FALSE]

StartedTopicCalls(topics) ==
  IF topics = <<>> THEN topicCalls ELSE Append(topicCalls, TopicCall(topics[1]))

\* researchStrategy.webSearchNeeded of a researchTopic that got its strategy:
\* whether the topic's research went to the Research Agent's own search agent
WebSearchNeeded(outcome) == IF outcome = "nokey" THEN {FALSE} ELSE BOOLEAN

\* the outcomes of an awaited agent routine whose calls all go through callLLM
AgentCallOutcomes ==
  IF OPENAI_API_KEY THEN {"notok", "parsed"} ELSE {"nokey"}

\* the awaited researchTopic settles: its result is stored under the topic
\* and the loop goes on to the next topic or, after the last, to
\* synthesizeResearch
TopicReturns ==
  /\ research.pc = "awaitTopic"
  /\ \E outcome \in AgentCallOutcomes :
     \E searched \in WebSearchNeeded(outcome) :
       LET calls == [topicCalls EXCEPT ![Len(topicCalls)].webResearch = searched]
       IN IF outcome # "parsed"
            THEN /\ research' = [research EXCEPT
                                   !.pc = "rejected",
                                   !.completed = @ + 1,
                                   !.message = LLMErrorMessage(outcome)]
                 /\ topicCalls' = calls
          ELSE LET topic == research.topics[research.topic]
                   results == ObjectSet(research.individualResearch, topic,
                                        [topic |-> topic, call |-> research.topic])
               IN IF research.topic < Len(research.topics)
                    THEN /\ research' = [research EXCEPT
                                           !.individualResearch = results,
                                           !.completed = @ + 1,
                                           !.topic = @ + 1,
                                           !.issued = @ + 1]
                         /\ topicCalls' =
                              Append(calls,
                                     TopicCall(research.topics[research.topic + 1]))
                  ELSE /\ research' = [research EXCEPT
                                         !.individualResearch = results,
                                         !.completed = @ + 1,
                                         !.pc = "awaitSynthesis",
                                         !.synthesisIssued = TRUE,
                                         !.synthesisInput = results]
                       /\ topicCalls' = calls
  /\ UNCHANGED <<notionVars, envVars, llmVars, routeVars, searchVars, validationVars, kbVars,
                 enhancementVars, orchVars>>

\* synthesizeResearch settles; conductResearch returns
ResearchSynthesisReturns ==
  /\ research.pc = "awaitSynthesis"
  /\ \E outcome \in AgentCallOutcomes :
       IF outcome # "parsed"
         THEN research' = [research EXCEPT !.pc = "rejected",
                                           !.message = LLMErrorMessage(outcome)]
       ELSE research' = [research EXCEPT !.pc = "resolved"]
  /\ UNCHANGED <<notionVars, envVars, llmVars, routeVars, searchVars, validationVars, kbVars,
                 enhancementVars, orchVars, topicCalls>>

\* the topic lists conductResearch is called with on its own
ResearchTopicLists ==
  {<<>>, <<MarketTopic>>, <<TechTopic, OtherTopic>>, <<TechTopic, TechTopic>>,
   <<knowledgeDomains[2], OtherTopic, MarketTechTopic>>}

\* conductResearch(researchTopics) up to its first await
ConductResearch(topics) ==
  /\ research.pc = "idle"
  /\ research' = StartResearch(topics, "caller")
  /\ topicCalls' = StartedTopicCalls(topics)
  /\ UNCHANGED <<notionVars, envVars, llmVars, routeVars, searchVars, validationVars, kbVars,
                 enhancementVars, orchVars>>

ResearchInit ==
  /\ research = ResearchIdle
  /\ topicCalls = <<>>

(* ------------------------------------------------------------------ *)
(* AgentOrchestrator: the execution log and the confidence score        *)
(* ------------------------------------------------------------------ *)
\* Log lines are kept as their characters.  "#" stands for the pictograph a
\* message starts with, a character outside the ASCII range.
\* line 24
StartingMessage ==
  <<"#", " ", "A", "g", "e", "n", "t", " ", "O", "r", "c", "h", "e", "s",
    "t", "r", "a", "t", "o", "r", " ", "s", "t", "a", "r", "t", "i", "n",
    "g", " ", "a", "u", "t", "o", "n", "o", "m", "o", "u", "s", " ", "p",
    "r", "o", "j", "e", "c", "t", " ", "g", "e", "n", "e", "r", "a", "t",
    "i", "o", "n">>

\* line 57
AnalysisStartMessage ==
  <<"#", " ", "S", "t", "a", "r", "t", "i", "n", "g", " ", "a", "u", "t",
    "o", "n", "o", "m", "o", "u", "s", " ", "p", "r", "o", "j", "e", "c",
    "t", " ", "a", "n", "a", "l", "y", "s", "i", "s">>

\* line 80, up to the interpolated assessment
AnalysisCompletePrefix ==
  <<"#", " ", "A", "n", "a", "l", "y", "s", "i", "s", " ", "c", "o", "m",
    "p", "l", "e", "t", "e", ":", " ">>

\* line 80, after the interpolated assessment
AnalysisCompleteSuffix ==
  <<" ", "c", "o", "m", "p", "l", "e", "x", "i", "t", "y">>

\* line 85
ResearchStartMessage ==
  <<"#", " ", "S", "t", "a", "r", "t", "i", "n", "g", " ", "a", "u", "t",
    "o", "n", "o", "m", "o", "u", "s", " ", "r", "e", "s", "e", "a", "r",
    "c", "h", " ", "p", "h", "a", "s", "e">>

\* line 92, up to the interpolated count
PerformingPrefix ==
  <<"#", " ", "P", "e", "r", "f", "o", "r", "m", "i", "n", "g", " ">>

\* line 92, after the interpolated count
PerformingSuffix ==
  <<" ", "w", "e", "b", " ", "s", "e", "a", "r", "c", "h", "e", "s">>

\* line 94
FallbackMessage ==
  <<"#", " ", "W", "e", "b", " ", "s", "e", "a", "r", "c", "h", " ", "r",
    "e", "q", "u", "e", "s", "t", "e", "d", " ", "b", "u", "t", " ", "S",
    "E", "R", "P", "E", "R", "_", "A", "P", "I", "_", "K", "E", "Y", " ",
    "n", "o", "t", " ", "c", "o", "n", "f", "i", "g", "u", "r", "e", "d",
    " ", "-", " ", "u", "s", "i", "n", "g", " ", "f", "a", "l", "l", "b",
    "a", "c", "k", " ", "r", "e", "s", "e", "a", "r", "c", "h">>

\* line 106, up to the interpolated count
ConductingPrefix ==
  <<"#", " ", "C", "o", "n", "d", "u", "c", "t", "i", "n", "g", " ", "t",
    "e", "c", "h", "n", "i", "c", "a", "l", " ", "r", "e", "s", "e", "a",
    "r", "c", "h", " ", "o", "n", " ">>

\* line 106, after the interpolated count
ConductingSuffix ==
  <<" ", "t", "o", "p", "i", "c", "s">>

\* line 122
ResearchCompleteMessage ==
  <<"#", " ", "R", "e", "s", "e", "a", "r", "c", "h", " ", "p", "h", "a",
    "s", "e", " ", "c", "o", "m", "p", "l", "e", "t", "e">>

\* line 127
GenerationStartMessage ==
  <<"#", " ", "S", "t", "a", "r", "t", "i", "n", "g", " ", "e", "n", "h",
    "a", "n", "c", "e", "d", " ", "p", "r", "o", "j", "e", "c", "t", " ",
    "g", "e", "n", "e", "r", "a", "t", "i", "o", "n", " ", "w", "i", "t",
    "h", " ", "a", "g", "e", "n", "t", " ", "i", "n", "s", "i", "g", "h",
    "t", "s">>

\* line 156
ImprovementStartMessage ==
  <<"#", " ", "S", "t", "a", "r", "t", "i", "n", "g", " ", "c", "o", "n",
    "t", "i", "n", "u", "o", "u", "s", " ", "i", "m", "p", "r", "o", "v",
    "e", "m", "e", "n", "t", " ", "v", "a", "l", "i", "d", "a", "t", "i",
    "o", "n">>

\* line 163
\* the improvement line, had it named the enhancement
ApplyingEnhancementMessage ==
  <<"#", " ", "A", "p", "p", "l", "y", "i", "n", "g", " ", "a", "u", "t",
    "o", "n", "o", "m", "o", "u", "s", " ", "e", "n", "h", "a", "n", "c",
    "e", "m", "e", "n", "t">>

ApplyingMessage ==
  <<"#", " ", "A", "p", "p", "l", "y", "i", "n", "g", " ", "a", "u", "t",
    "o", "n", "o", "m", "o", "u", "s", " ", "i", "m", "p", "r", "o", "v",
    "e", "m", "e", "n", "t", "s">>

\* the "[<ISO time>] " that log() puts before the message: digits, "-", ":",
\* ".", "T" and "Z" between brackets
TimestampPrefix ==
  <<"[", "2", "0", "2", "4", "-", "0", "1", "-", "0", "1", "T", "0", "0", ":",
    "0", "0", ":", "0", "0", ".", "0", "0", "0", "Z", "]", " ">>

\* `[${timestamp}] ${message}`
LogLine(message) == TimestampPrefix \o message

\* String(n) for the counts that occur
DecimalDigits == <<"0", "1", "2", "3", "4", "5", "6", "7", "8", "9">>
RECURSIVE NumberToString(_)
NumberToString(n) ==
  IF n < 10 THEN <<DecimalDigits[n + 1]>>
  ELSE Append(NumberToString(n \div 10), DecimalDigits[(n % 10) + 1])

\* String.prototype.includes
Includes(str, sub) ==
  \E i \in 1..(Len(str) - Len(sub) + 1) : SubSeq(str, i, i + Len(sub) - 1) = sub

\* this.executionLog.filter(log => log.includes(sub)).length
CountIncluding(log, sub) == Len(SelectSeq(log, LAMBDA line : Includes(line, sub)))

ResearchWord == <<"r", "e", "s", "e", "a", "r", "c", "h">>
ValidationWord == <<"v", "a", "l", "i", "d", "a", "t", "i", "o", "n">>
EnhancementWord == <<"e", "n", "h", "a", "n", "c", "e", "m", "e", "n", "t">>

\* the score without Math.min
Uncapped(a, b) == b

Min(a, b) == IF a < b THEN a ELSE b

\* calculateConfidenceScore()
calculateConfidenceScore(log) ==
  Min(100, CountIncluding(log, ResearchWord) * 20
             + CountIncluding(log, ValidationWord) * 25
             + CountIncluding(log, EnhancementWord) * 15)

(* ------------------------------------------------------------------ *)
(* AgentOrchestrator: a run                                             *)
(* ------------------------------------------------------------------ *)
UpperCase ==
  <<"A", "B", "C", "D", "E", "F", "G", "H", "I", "J", "K", "L", "M", "N", "O",
    "P", "Q", "R", "S", "T", "U", "V", "W", "X", "Y", "Z">>
LowerCase ==
  <<"a", "b", "c", "d", "e", "f", "g", "h", "i", "j", "k", "l", "m", "n", "o",
    "p", "q", "r", "s", "t", "u", "v", "w", "x", "y", "z">>

\* String.prototype.toLowerCase
ToLowerCase(str) ==
  [i \in 1..Len(str) |->
     IF \E k \in 1..Len(UpperCase) : UpperCase[k] = str[i]
       THEN LowerCase[CHOOSE k \in 1..Len(UpperCase) : UpperCase[k] = str[i]]
     ELSE str[i]]

\* the filter of analyzeMarket
IsMarketTopic(topic) ==
  LET t == ToLowerCase(topic)
  IN \/ Includes(t, <<"m", "a", "r", "k", "e", "t">>)
     \/ Includes(t, <<"b", "u", "s", "i", "n", "e", "s", "s">>)
     \/ Includes(t, <<"c", "o", "m", "p", "e", "t", "i", "t", "i", "o", "n">>)

\* the filter of researchTechnologies
IsTechTopic(topic) ==
  LET t == ToLowerCase(topic)
  IN \/ Includes(t, <<"t", "e", "c", "h">>)
     \/ Includes(t, <<"f", "r", "a", "m", "e", "w", "o", "r", "k">>)
     \/ Includes(t, <<"a", "r", "c", "h", "i", "t", "e", "c", "t", "u", "r", "e">>)

\* a property that holds a list, or is missing from the object
MissingList == [present |-> FALSE, items |-> <<>>]
List(items) == [present |-> TRUE, items |-> items]

\* list?.length > 0
NonEmptyList(list) == list.present /\ Len(list.items) > 0

\* the values of analysisDecision that are enumerated: null, or an object
\* with an assessment, search queries and research topics
ComplexityValues ==
  {<<"l", "o", "w">>, <<"v", "e", "r", "y", "_", "h", "i", "g", "h">>}
QueryLists ==
  {MissingList, List(<<>>), List(<< <<"x">> >>), List(<< <<"x">>, <<"y">> >>)}
TopicLists ==
  {MissingList, List(<<>>), List(<<MarketTopic>>),
   List(<<TechTopic, OtherTopic>>), List(<<MarketTechTopic>>)}
NullDecision ==
  [kind |-> "null", complexity_assessment |-> <<>>,
   web_search_queries |-> MissingList, research_needed |-> MissingList]
AnalysisDecisions ==
  {NullDecision}
    \cup [kind : {"object"}, complexity_assessment : ComplexityValues,
          web_search_queries : QueryLists, research_needed : TopicLists]

(* ------------------------------------------------------------------ *)
(* EnhancementAgent                                                     *)
(* ------------------------------------------------------------------ *)
\* this.enhancementStrategies
enhancementStrategies ==
  <<<<"t", "e", "c", "h", "n", "i", "c", "a", "l", "_", "o", "p", "t", "i",
      "m", "i", "z", "a", "t", "i", "o", "n">>,
    <<"a", "r", "c", "h", "i", "t", "e", "c", "t", "u", "r", "e", "_", "i",
      "m", "p", "r", "o", "v", "e", "m", "e", "n", "t">>,
    <<"p", "e", "r", "f", "o", "r", "m", "a", "n", "c", "e", "_", "e", "n",
      "h", "a", "n", "c", "e", "m", "e", "n", "t">>,
    <<"s", "e", "c", "u", "r", "i", "t", "y", "_", "s", "t", "r", "e", "n",
      "g", "t", "h", "e", "n", "i", "n", "g">>,
    <<"u", "s", "e", "r", "_", "e", "x", "p", "e", "r", "i", "e", "n", "c",
      "e", "_", "o", "p", "t", "i", "m", "i", "z", "a", "t", "i", "o", "n">>,
    <<"s", "c", "a", "l", "a", "b", "i", "l", "i", "t", "y", "_", "i", "m",
      "p", "r", "o", "v", "e", "m", "e", "n", "t">>,
    <<"m", "a", "i", "n", "t", "a", "i", "n", "a", "b", "i", "l", "i", "t",
      "y", "_", "e", "n", "h", "a", "n", "c", "e", "m", "e", "n", "t">>,
    <<"c", "o", "s", "t", "_", "o", "p", "t", "i", "m", "i", "z", "a", "t",
      "i", "o", "n">>>>

\* the enhance... methods of the class
EnhancementMethods ==
  {<<"e", "n", "h", "a", "n", "c", "e", "T", "e", "c", "h", "n", "i", "c",
     "a", "l", "O", "p", "t", "i", "m", "i", "z", "a", "t", "i", "o", "n">>,
   <<"e", "n", "h", "a", "n", "c", "e", "A", "r", "c", "h", "i", "t", "e",
     "c", "t", "u", "r", "e", "I", "m", "p", "r", "o", "v", "e", "m", "e",
     "n", "t">>,
   <<"e", "n", "h", "a", "n", "c", "e", "P", "e", "r", "f", "o", "r", "m",
     "a", "n", "c", "e", "E", "n", "h", "a", "n", "c", "e", "m", "e", "n",
     "t">>,
   <<"e", "n", "h", "a", "n", "c", "e", "S", "e", "c", "u", "r", "i", "t",
     "y", "S", "t", "r", "e", "n", "g", "t", "h", "e", "n", "i", "n", "g">>,
   <<"e", "n", "h", "a", "n", "c", "e", "U", "s", "e", "r", "E", "x", "p",
     "e", "r", "i", "e", "n", "c", "e", "O", "p", "t", "i", "m", "i", "z",
     "a", "t", "i", "o", "n">>,
   <<"e", "n", "h", "a", "n", "c", "e", "S", "c", "a", "l", "a", "b", "i",
     "l", "i", "t", "y", "I", "m", "p", "r", "o", "v", "e", "m", "e", "n",
     "t">>,
   <<"e", "n", "h", "a", "n", "c", "e", "M", "a", "i", "n", "t", "a", "i",
     "n", "a", "b", "i", "l", "i", "t", "y", "E", "n", "h", "a", "n", "c",
     "e", "m", "e", "n", "t">>,
   <<"e", "n", "h", "a", "n", "c", "e", "C", "o", "s", "t", "O", "p", "t",
     "i", "m", "i", "z", "a", "t", "i", "o", "n">>}

\* the agent's entry point, enhanceProject, whose name also starts with
\* "enhance"
EntryPoint ==
  <<"e", "n", "h", "a", "n", "c", "e", "P", "r", "o", "j", "e", "c", "t">>

\* the properties of the agent that are functions and can be named by
\* applyEnhancementCategory
ClassMethods == EnhancementMethods \cup {EntryPoint}

\* the category whose method name is that of the entry point
ProjectCategory == <<"p", "r", "o", "j", "e", "c", "t">>

\* how deep enhanceProject invocations are followed into one another
MaxDepth == 2

\* a category of a plan that no method is named after
BrandingCategory == <<"b", "r", "a", "n", "d", "i", "n", "g">>

\* String.prototype.toUpperCase, on one character
CharToUpperCase(c) ==
  IF \E k \in 1..Len(LowerCase) : LowerCase[k] = c
    THEN UpperCase[CHOOSE k \in 1..Len(LowerCase) : LowerCase[k] = c]
  ELSE c

\* category.split('_').map(word => word.charAt(0).toUpperCase()
\*   + word.slice(1)).join('')
RECURSIVE CamelCase(_, _)
CamelCase(str, wordStart) ==
  IF str = <<>> THEN <<>>
  ELSE IF Head(str) = "_" THEN CamelCase(Tail(str), TRUE)
  ELSE <<IF wordStart THEN CharToUpperCase(Head(str)) ELSE Head(str)>>
         \o CamelCase(Tail(str), FALSE)

\* the method name applyEnhancementCategory builds for a category
EnhancementMethod(category) ==
  <<"e", "n", "h", "a", "n", "c", "e">> \o CamelCase(category, TRUE)

\* the routine applyEnhancementCategory dispatches to
Handler(category) ==
  IF EnhancementMethod(category) \in ClassMethods
    THEN EnhancementMethod(category)
  ELSE <<"g", "e", "n", "e", "r", "i", "c", "E", "n", "h", "a", "n", "c", "e",
         "m", "e", "n", "t">>

Priority(category, priority) == [category |-> category, priority |-> priority]

\* the values of enhancement_priorities a plan is enumerated with: absent,
\* empty, and lists that mix priorities, repeat a category and name a
\* category outside the strategies
PriorityLists ==
  {MissingList,
   List(<<>>),
   List(<<Priority(enhancementStrategies[8], "low")>>),
   List(<<Priority(enhancementStrategies[4], "critical"),
          Priority(enhancementStrategies[8], "medium"),
          Priority(BrandingCategory, "high")>>),
   List(<<Priority(enhancementStrategies[5], "high"),
          Priority(enhancementStrategies[5], "critical")>>),
   List(<<Priority(ProjectCategory, "high")>>)}

\* (mutation of Applies: every entry of the plan is applied)
AppliesToAll(priority) == TRUE

\* priority.priority === 'critical' || priority.priority === 'high'
Applies(priority) == priority.priority \in {"critical", "high"}

\* the first entry from index i on that applyEnhancements acts on, or 0
RECURSIVE NextApplied(_, _)
NextApplied(priorities, i) ==
  IF i > Len(priorities) THEN 0
  ELSE IF Applies(priorities[i]) THEN i
  ELSE NextApplied(priorities, i + 1)

EnhancementIdle ==
  [pc |-> "idle", priorities |-> <<>>, index |-> 0, dispatched |-> <<>>,
   completed |-> 0, enhancements |-> <<>>, generated |-> FALSE,
   generatedFrom |-> <<>>, scored |-> FALSE, enhancedProject |-> "null",
   message |-> Undefined, frames |-> <<>>]

\* enhanceProject(project, suggestions) up to the await of
\* createEnhancementPlan
EnhanceProject ==
  /\ enhancement.pc = "idle"
  /\ enhancement' = [EnhancementIdle EXCEPT !.pc = "awaitPlan"]
  /\ UNCHANGED <<notionVars, envVars, llmVars, routeVars, searchVars, validationVars, kbVars,
                 researchVars, orchVars>>

\* what an enhanceProject invocation that waits for a handler holds
Frame(e) ==
  [priorities |-> e.priorities, index |-> e.index, dispatched |-> e.dispatched,
   completed |-> e.completed, enhancements |-> e.enhancements]

\* applyEnhancements from entry i on: the next handler is dispatched (when
\* the method is enhanceProject itself, a new invocation of it begins) or,
\* past the last entry, generateEnhancedProject is called
Dispatch(e, i) ==
  LET next == NextApplied(e.priorities, i)
  IN IF next = 0
       THEN [e EXCEPT !.pc = "awaitEnhancedProject", !.index = 0,
                      !.generated = TRUE, !.generatedFrom = e.enhancements]
     ELSE LET called ==
                [e EXCEPT !.pc = "awaitCategory", !.index = next,
                          !.dispatched =
                             Append(@, [category |-> e.priorities[next].category,
                                        handler |-> Handler(e.priorities[next].category)])]
          IN IF Handler(e.priorities[next].category) = EntryPoint
               THEN [EnhancementIdle EXCEPT
                       !.pc = "awaitPlan",
                       !.frames = Append(e.frames, Frame(called))]
             ELSE called

\* createEnhancementPlan settles; applyEnhancements starts on the plan
EnhancementPlanReturns ==
  /\ enhancement.pc = "awaitPlan"
  /\ \E outcome \in AgentCallOutcomes :
       IF outcome # "parsed"
         THEN enhancement' = [enhancement EXCEPT
                                !.pc = "rejected",
                                !.message = LLMErrorMessage(outcome)]
       ELSE \E plan \in {l \in PriorityLists :
                         Len(enhancement.frames) < MaxDepth
                           \/ \A i \in 1..Len(l.items) :
                                Handler(l.items[i].category) # EntryPoint} :
              IF ~plan.present
                THEN enhancement' = [enhancement EXCEPT !.pc = "rejected",
                                                        !.message = "TypeError"]
              ELSE enhancement' =
                     Dispatch([enhancement EXCEPT !.priorities = plan.items], 1)
  /\ UNCHANGED <<notionVars, envVars, llmVars, routeVars, searchVars, validationVars, kbVars,
                 researchVars, orchVars>>

\* (mutation of EnhancementCategoryReturns: a failing category is skipped)
EnhancementCategorySkipsFailure ==
  /\ enhancement.pc = "awaitCategory"
  /\ \E outcome \in AgentCallOutcomes :
       LET category == enhancement.priorities[enhancement.index].category
           stored == [enhancement EXCEPT
                        !.completed = @ + 1,
                        !.enhancements =
                           IF outcome # "parsed" THEN @
                           ELSE ObjectSet(@, category,
                                          [handler |-> Handler(category),
                                           call |-> enhancement.index])]
       IN enhancement' = Dispatch(stored, enhancement.index + 1)
  /\ UNCHANGED <<notionVars, envVars, llmVars, routeVars, searchVars, validationVars, kbVars,
                 researchVars, orchVars>>

\* the awaited applyEnhancementCategory settles: its result is stored under
\* the category and the loop goes on
EnhancementCategoryReturns ==
  /\ enhancement.pc = "awaitCategory"
  /\ \E outcome \in AgentCallOutcomes :
       IF outcome # "parsed"
         THEN enhancement' = [enhancement EXCEPT
                                !.pc = "rejected",
                                !.completed = @ + 1,
                                !.message = LLMErrorMessage(outcome)]
       ELSE LET category == enhancement.priorities[enhancement.index].category
                stored == [enhancement EXCEPT
                             !.completed = @ + 1,
                             !.enhancements =
                                ObjectSet(@, category,
                                          [handler |-> Handler(category),
                                           call |-> enhancement.index])]
            IN enhancement' = Dispatch(stored, enhancement.index + 1)
  /\ UNCHANGED <<notionVars, envVars, llmVars, routeVars, searchVars, validationVars, kbVars,
                 researchVars, orchVars>>

\* generateEnhancedProject settles; calculateImprovementScore is called
EnhancedProjectReturns ==
  /\ enhancement.pc = "awaitEnhancedProject"
  /\ \E outcome \in AgentCallOutcomes :
       IF outcome # "parsed"
         THEN enhancement' = [enhancement EXCEPT
                                !.pc = "rejected",
                                !.message = LLMErrorMessage(outcome)]
       ELSE enhancement' = [enhancement EXCEPT !.pc = "awaitImprovementScore",
                                               !.enhancedProject = "enhanced",
                                               !.scored = TRUE]
  /\ UNCHANGED <<notionVars, envVars, llmVars, routeVars, searchVars, validationVars, kbVars,
                 researchVars, orchVars>>

\* calculateImprovementScore settles; enhanceProject returns the enhanced
\* project
ImprovementScoreReturns ==
  /\ enhancement.pc = "awaitImprovementScore"
  /\ \E outcome \in AgentCallOutcomes :
       IF outcome # "parsed"
         THEN enhancement' = [enhancement EXCEPT
                                !.pc = "rejected",
                                !.message = LLMErrorMessage(outcome)]
       ELSE IF enhancement.frames = <<>>
         THEN enhancement' = [enhancement EXCEPT !.pc = "resolved"]
       ELSE LET n == Len(enhancement.frames)
                frame == enhancement.frames[n]
                category == frame.priorities[frame.index].category
                caller == [EnhancementIdle EXCEPT
                             !.frames = SubSeq(enhancement.frames, 1, n - 1),
                             !.priorities = frame.priorities,
                             !.index = frame.index,
                             !.dispatched = frame.dispatched,
                             !.completed = frame.completed + 1,
                             !.enhancements =
                                ObjectSet(frame.enhancements, category,
                                          [handler |-> EntryPoint,
                                           call |-> frame.index])]
            IN enhancement' = Dispatch(caller, frame.index + 1)
  /\ UNCHANGED <<notionVars, envVars, llmVars, routeVars, searchVars, validationVars, kbVars,
                 researchVars, orchVars>>

EnhancementInit == enhancement = EnhancementIdle

\* the phases of a run, in the order of orchestrateProjectGeneration
Phases == <<"Analysis", "Research", "Generation", "Validation", "Enhancement", "Done">>

OrchIdle ==
  [pc |-> "idle", run |-> 0, serper |-> FALSE,
   analysis |-> NullDecision, executionLog |-> <<>>, trace |-> <<>>,
   webSearches |-> <<>>, research |-> <<>>, plan |-> "none",
   validated |-> 0, improvementNeeded |-> FALSE, enhanced |-> 0,
   finalProject |-> "none", confidenceScore |-> 0, message |-> Undefined]

\* this.log(message) for each message of a list
Logged(log, messages) ==
  log \o [i \in 1..Len(messages) |-> LogLine(messages[i])]

Started(phase) == [phase |-> phase, event |-> "start"]
Ended(phase) == [phase |-> phase, event |-> "end"]

\* (mutation of Rejected: a failed run starts over from the analysis)
RejectedRetries(o, message) == [o EXCEPT !.pc = "awaitAnalysis", !.message = message]

\* the run rejects: the error leaves orchestrateProjectGeneration
Rejected(o, message) == [o EXCEPT !.pc = "rejected", !.message = message]

\* orchestrateProjectGeneration up to the await in autonomousAnalysis, on a
\* new orchestrator (each orchestrator is followed through one run)
OrchestrateProjectGeneration ==
  /\ orch.pc = "idle"
  /\ orch.run < MaxRuns
  /\ orch' = [OrchIdle EXCEPT
                !.pc = "awaitAnalysis",
                !.run = orch.run + 1,
                !.serper = SERPER_API_KEY,
                !.executionLog = Logged(orch.executionLog,
                                        <<StartingMessage, AnalysisStartMessage>>),
                !.trace = <<Started("Analysis")>>]
  /\ searches' = <<>>
  /\ providerRequests' = <<>>
  /\ research' = ResearchIdle
  /\ topicCalls' = <<>>
  /\ UNCHANGED <<notionVars, envVars, llmVars, routeVars, validationVars, kbVars,
                 enhancementVars, cache, batch, runs>>

\* a further call, had it begun with an empty log
OrchestrateAgainNewLog ==
  /\ orch.pc \in {"resolved", "rejected"}
  /\ orch.run < MaxRuns
  /\ orch' = [OrchIdle EXCEPT
                !.pc = "awaitAnalysis",
                !.run = orch.run + 1,
                !.serper = SERPER_API_KEY,
                !.executionLog = Logged(<<>>,
                                        <<StartingMessage, AnalysisStartMessage>>),
                !.trace = <<Started("Analysis")>>]
  /\ searches' = <<>>
  /\ providerRequests' = <<>>
  /\ research' = ResearchIdle
  /\ topicCalls' = <<>>
  /\ UNCHANGED <<notionVars, envVars, llmVars, routeVars, validationVars, kbVars,
                 enhancementVars, cache, batch, runs>>

\* orchestrateProjectGeneration called again on an orchestrator whose
\* earlier run has settled: the execution log and the search agent's cache
\* are those of the instance
OrchestrateAgain ==
  /\ orch.pc \in {"resolved", "rejected"}
  /\ orch.run < MaxRuns
  /\ orch' = [OrchIdle EXCEPT
                !.pc = "awaitAnalysis",
                !.run = orch.run + 1,
                !.serper = SERPER_API_KEY,
                !.executionLog = Logged(orch.executionLog,
                                        <<StartingMessage, AnalysisStartMessage>>),
                !.trace = <<Started("Analysis")>>]
  /\ searches' = <<>>
  /\ providerRequests' = <<>>
  /\ research' = ResearchIdle
  /\ topicCalls' = <<>>
  /\ UNCHANGED <<notionVars, envVars, llmVars, routeVars, validationVars, kbVars,
                 enhancementVars, cache, batch, runs>>

\* the process is started again with a new environment: a new orchestrator
\* with new agents
Restart ==
  /\ orch.pc \in {"resolved", "rejected"}
  /\ orch.run < MaxRuns
  /\ SERPER_API_KEY' = ~SERPER_API_KEY
  /\ orch' = [OrchIdle EXCEPT !.run = orch.run]
  /\ cache' = <<>>
  /\ searches' = <<>>
  /\ providerRequests' = <<>>
  /\ research' = ResearchIdle
  /\ topicCalls' = <<>>
  /\ UNCHANGED <<notionVars, OPENAI_API_KEY, NOTION_API_KEY,
                 NOTION_PARENT_PAGE_ID, GITHUB_TOKEN, llmVars, routeVars, validationVars, kbVars,
                 enhancementVars, batch, runs>>

\* autonomousAnalysis returns (lines 60-81); autonomousResearch begins
AutonomousAnalysisReturns ==
  /\ orch.pc = "awaitAnalysis"
  /\ \E outcome \in AgentCallOutcomes :
       IF outcome # "parsed"
         THEN orch' = Rejected(orch, LLMErrorMessage(outcome))
       ELSE \E decision \in AnalysisDecisions :
              IF decision.kind = "null"
                THEN orch' = Rejected(orch, "TypeError")
              ELSE orch' = [orch EXCEPT
                              !.pc = "webSearch",
                              !.analysis = decision,
                              !.executionLog =
                                 Logged(@, <<AnalysisCompletePrefix
                                               \o decision.complexity_assessment
                                               \o AnalysisCompleteSuffix,
                                             ResearchStartMessage>>),
                              !.trace = @ \o <<Ended("Analysis"),
                                               Started("Research")>>]
  /\ UNCHANGED <<notionVars, envVars, llmVars, routeVars, searchVars, validationVars, kbVars,
                 researchVars, enhancementVars, runs>>

\* lines 88-102: the web searches of the analysis, all started at once
WebSearchResearch ==
  /\ orch.pc = "webSearch"
  /\ LET queries == orch.analysis.web_search_queries
     IN IF NonEmptyList(queries)
          THEN LET started == StartAll(queries.items, <<>>)
                   n == Len(searches)
               IN /\ searches' = searches \o started
                  /\ providerRequests' =
                       providerRequests \o
                         SelectSeq([i \in 1..Len(started) |->
                                      IF started[i].requests = 1
                                        THEN started[i].query ELSE <<>>],
                                   LAMBDA q : q # <<>>)
                  /\ orch' = [orch EXCEPT
                                !.pc = "awaitSearches",
                                !.webSearches = [i \in 1..Len(started) |-> n + i],
                                !.executionLog =
                                   Logged(@, <<IF SERPER_API_KEY
                                                 THEN PerformingPrefix
                                                        \o NumberToString(Len(queries.items))
                                                        \o PerformingSuffix
                                               ELSE FallbackMessage>>)]
        ELSE /\ orch' = [orch EXCEPT !.pc = "technicalResearch"]
             /\ UNCHANGED <<searches, providerRequests>>
  /\ UNCHANGED <<notionVars, envVars, llmVars, routeVars, validationVars, kbVars,
                 researchVars, enhancementVars, cache, batch, runs>>

\* Promise.all of the searches settles (a search never rejects)
WebSearchesReturn ==
  /\ orch.pc = "awaitSearches"
  /\ \A i \in 1..Len(orch.webSearches) : searches[orch.webSearches[i]].pc = "done"
  /\ IF \E i \in 1..Len(orch.webSearches) :
          searches[orch.webSearches[i]].settled = "rejected"
       THEN orch' = Rejected(orch, "search rejected")
     ELSE orch' = [orch EXCEPT !.pc = "technicalResearch"]
  /\ UNCHANGED <<notionVars, envVars, llmVars, routeVars, searchVars, validationVars, kbVars,
                 researchVars, enhancementVars, runs>>

\* the end of autonomousResearch (line 122) and enhancedGeneration up to its
\* await (lines 127-150)
EnterGeneration(o) ==
  [o EXCEPT !.pc = "awaitGeneration",
            !.executionLog = Logged(@, <<ResearchCompleteMessage,
                                         GenerationStartMessage>>),
            !.trace = @ \o <<Ended("Research"), Started("Generation")>>]

\* a conductResearch invocation of the run, as the run remembers it
ResearchDone(purpose, topics) == [purpose |-> purpose, topics |-> topics]

\* lines 104-110: conductResearch over research_needed, when there are topics
TechnicalResearch ==
  /\ orch.pc = "technicalResearch"
  /\ LET topics == orch.analysis.research_needed
     IN IF NonEmptyList(topics)
          THEN /\ orch' = [orch EXCEPT
                             !.pc = "awaitTechnicalResearch",
                             !.executionLog =
                                Logged(@, <<ConductingPrefix
                                              \o NumberToString(Len(topics.items))
                                              \o ConductingSuffix>>)]
               /\ research' = StartResearch(topics.items, "technicalResearch")
               /\ topicCalls' = StartedTopicCalls(topics.items)
        ELSE /\ orch' = [orch EXCEPT !.pc = "marketAnalysis"]
             /\ UNCHANGED researchVars
  /\ UNCHANGED <<notionVars, envVars, llmVars, routeVars, searchVars, validationVars, kbVars,
                 enhancementVars, runs>>

\* the awaited conductResearch has settled: the run rejects with its error,
\* or remembers it
ConductResearchSettled(o) ==
  IF research.pc = "rejected" THEN Rejected(o, research.message)
  ELSE [o EXCEPT !.research = Append(@, ResearchDone(research.caller,
                                                     research.topics))]

\* line 108: the technical research settles
TechnicalResearchReturns ==
  /\ orch.pc = "awaitTechnicalResearch"
  /\ research.pc \in {"resolved", "rejected"}
  /\ LET o == ConductResearchSettled(orch)
     IN orch' = IF o.pc = "rejected" THEN o ELSE [o EXCEPT !.pc = "marketAnalysis"]
  /\ research' = ResearchIdle
  /\ UNCHANGED <<notionVars, envVars, llmVars, routeVars, searchVars, validationVars, kbVars,
                 enhancementVars, topicCalls, runs>>

\* (mutation of MarketAnalysis: the topics are not researched a second time
\* for the market)
MarketAnalysisSkipped ==
  /\ orch.pc = "marketAnalysis"
  /\ IF ~orch.analysis.research_needed.present
       THEN orch' = Rejected(orch, "TypeError")
     ELSE orch' = [orch EXCEPT !.pc = "technologyResearch"]
  /\ UNCHANGED <<notionVars, envVars, llmVars, routeVars, searchVars, validationVars, kbVars,
                 researchVars, enhancementVars, runs>>

\* lines 112-115 and analyzeMarket: conductResearch over the market topics of
\* research_needed; null when there is none; a TypeError without the list
MarketAnalysis ==
  /\ orch.pc = "marketAnalysis"
  /\ LET topics == orch.analysis.research_needed
         marketTopics == SelectSeq(topics.items, IsMarketTopic)
     IN IF ~topics.present
          THEN orch' = Rejected(orch, "TypeError") /\ UNCHANGED researchVars
        ELSE IF marketTopics = <<>>
          THEN /\ orch' = [orch EXCEPT !.pc = "technologyResearch"]
               /\ UNCHANGED researchVars
        ELSE /\ orch' = [orch EXCEPT !.pc = "awaitMarketAnalysis"]
             /\ research' = StartResearch(marketTopics, "marketAnalysis")
             /\ topicCalls' = StartedTopicCalls(marketTopics)
  /\ UNCHANGED <<notionVars, envVars, llmVars, routeVars, searchVars, validationVars, kbVars,
                 enhancementVars, runs>>

\* line 113: the market analysis settles
MarketAnalysisReturns ==
  /\ orch.pc = "awaitMarketAnalysis"
  /\ research.pc \in {"resolved", "rejected"}
  /\ LET o == ConductResearchSettled(orch)
     IN orch' = IF o.pc = "rejected" THEN o
                ELSE [o EXCEPT !.pc = "technologyResearch"]
  /\ research' = ResearchIdle
  /\ UNCHANGED <<notionVars, envVars, llmVars, routeVars, searchVars, validationVars, kbVars,
                 enhancementVars, topicCalls, runs>>

\* lines 117-120 and researchTechnologies: conductResearch over the
\* technology topics of research_needed; null when there is none
TechnologyResearch ==
  /\ orch.pc = "technologyResearch"
  /\ LET topics == orch.analysis.research_needed
         techTopics == SelectSeq(topics.items, IsTechTopic)
     IN IF techTopics = <<>>
          THEN orch' = EnterGeneration(orch) /\ UNCHANGED researchVars
        ELSE /\ orch' = [orch EXCEPT !.pc = "awaitTechnologyResearch"]
             /\ research' = StartResearch(techTopics, "technologyResearch")
             /\ topicCalls' = StartedTopicCalls(techTopics)
  /\ UNCHANGED <<notionVars, envVars, llmVars, routeVars, searchVars, validationVars, kbVars,
                 enhancementVars, runs>>

\* line 118: the technology research settles, and with it the Research phase
TechnologyResearchReturns ==
  /\ orch.pc = "awaitTechnologyResearch"
  /\ research.pc \in {"resolved", "rejected"}
  /\ LET o == ConductResearchSettled(orch)
     IN orch' = IF o.pc = "rejected" THEN o ELSE EnterGeneration(o)
  /\ research' = ResearchIdle
  /\ UNCHANGED <<notionVars, envVars, llmVars, routeVars, searchVars, validationVars, kbVars,
                 enhancementVars, topicCalls, runs>>

\* enhancedGeneration returns the generated plan; continuousImprovement
\* begins and invokes validateProject (lines 155-159)
EnhancedGenerationReturns ==
  /\ orch.pc = "awaitGeneration"
  /\ \E outcome \in AgentCallOutcomes :
       IF outcome # "parsed"
         THEN orch' = Rejected(orch, LLMErrorMessage(outcome))
       ELSE orch' = [orch EXCEPT
                       !.pc = "awaitValidation",
                       !.plan = "generated",
                       !.validated = @ + 1,
                       !.executionLog = Logged(@, <<ImprovementStartMessage>>),
                       !.trace = @ \o <<Ended("Generation"),
                                        Started("Validation")>>]
  /\ UNCHANGED <<notionVars, envVars, llmVars, routeVars, searchVars, validationVars, kbVars,
                 researchVars, enhancementVars, runs>>

\* lines 44-51: the confidence score is taken, then generateRecommendations
\* is awaited
EnterReturn(o, final) ==
  [o EXCEPT !.pc = "awaitRecommendations",
            !.finalProject = final,
            !.confidenceScore = calculateConfidenceScore(o.executionLog),
            !.trace = @ \o <<Ended("Validation")>>]

\* (mutation of ValidateProjectReturns: the Enhancement Agent runs whatever
\* the validation reported)
ValidateProjectReturnsAlwaysEnhance ==
  /\ orch.pc = "awaitValidation"
  /\ \E outcome \in AgentCallOutcomes :
       IF outcome # "parsed"
         THEN orch' = Rejected(orch, LLMErrorMessage(outcome))
       ELSE \E needed \in BOOLEAN :
              orch' = [orch EXCEPT
                         !.pc = "awaitEnhancement",
                         !.improvementNeeded = needed,
                         !.enhanced = @ + 1,
                         !.executionLog = Logged(@, <<ApplyingMessage>>),
                         !.trace = Append(@, Started("Enhancement"))]
  /\ UNCHANGED <<notionVars, envVars, llmVars, routeVars, searchVars, validationVars, kbVars,
                 researchVars, enhancementVars, runs>>

\* validateProject settles (lines 159-171): with improvementNeeded the
\* Enhancement Agent is invoked, otherwise the generated plan is final
ValidateProjectReturns ==
  /\ orch.pc = "awaitValidation"
  /\ \E outcome \in AgentCallOutcomes :
       IF outcome # "parsed"
         THEN orch' = Rejected(orch, LLMErrorMessage(outcome))
       ELSE \E needed \in BOOLEAN :
              IF needed
                THEN orch' = [orch EXCEPT
                                !.pc = "awaitEnhancement",
                                !.improvementNeeded = TRUE,
                                !.enhanced = @ + 1,
                                !.executionLog = Logged(@, <<ApplyingMessage>>),
                                !.trace = Append(@, Started("Enhancement"))]
              ELSE orch' = EnterReturn([orch EXCEPT !.improvementNeeded = FALSE],
                                       orch.plan)
  /\ UNCHANGED <<notionVars, envVars, llmVars, routeVars, searchVars, validationVars, kbVars,
                 researchVars, enhancementVars, runs>>

\* enhanceProject settles: its output is the final plan
EnhanceProjectReturns ==
  /\ orch.pc = "awaitEnhancement"
  /\ \E outcome \in AgentCallOutcomes :
       IF outcome # "parsed"
         THEN orch' = Rejected(orch, LLMErrorMessage(outcome))
       ELSE orch' = EnterReturn([orch EXCEPT
                                   !.trace = Append(@, Ended("Enhancement"))],
                                "enhanced")
  /\ UNCHANGED <<notionVars, envVars, llmVars, routeVars, searchVars, validationVars, kbVars,
                 researchVars, enhancementVars, runs>>

\* what a run that returned leaves behind
RunResult(o) ==
  [serper |-> o.serper, analysis |-> o.analysis,
   confidenceScore |-> o.confidenceScore]

\* generateRecommendations settles; orchestrateProjectGeneration returns
RecommendationsReturn ==
  /\ orch.pc = "awaitRecommendations"
  /\ \E outcome \in AgentCallOutcomes :
       IF outcome # "parsed"
         THEN /\ orch' = Rejected(orch, LLMErrorMessage(outcome))
              /\ UNCHANGED runs
       ELSE /\ orch' = [orch EXCEPT !.pc = "resolved",
                                    !.trace = Append(@, Started("Done"))]
            /\ runs' = Append(runs, RunResult(orch))
  /\ UNCHANGED <<notionVars, envVars, llmVars, routeVars, searchVars, validationVars, kbVars,
                 researchVars, enhancementVars>>

NextOrchestrator ==
  \/ OrchestrateProjectGeneration
  \/ AutonomousAnalysisReturns
  \/ WebSearchResearch
  \/ \E t \in 1..MaxSearches : SerperReturns(t)
  \/ \E t \in 1..MaxSearches : AnalysisReturns(t)
  \/ WebSearchesReturn
  \/ TechnicalResearch
  \/ TopicReturns
  \/ ResearchSynthesisReturns
  \/ TechnicalResearchReturns
  \/ MarketAnalysis
  \/ MarketAnalysisReturns
  \/ TechnologyResearch
  \/ TechnologyResearchReturns
  \/ EnhancedGenerationReturns
  \/ ValidateProjectReturns
  \/ EnhanceProjectReturns
  \/ RecommendationsReturn

OrchInit ==
  /\ orch = OrchIdle
  /\ runs = <<>>

(* ------------------------------------------------------------------ *)
(* createNotionPage: the page and its blocks                            *)
(* ------------------------------------------------------------------ *)
\* const chunkSize = 100
chunkSize == 100

\* the numbers of objectives and of scope assumptions of an interpretation,
\* and the numbers of tasks of the milestones of a plan, that are enumerated
ObjectiveCounts == {0, 96, 97}
AssumptionCounts == {0, 1}
TaskCounts == {<<>>, <<0>>, <<99, 98>>}

\* { object: "block", type, [type]: { rich_text: [{ text: { content } }] } }
Block(type, content) == [type |-> type, content |-> content]

\* a milestone's heading and the items of its tasks, milestone after
\* milestone
RECURSIVE MilestoneBlocks(_, _)
MilestoneBlocks(tasks, m) ==
  IF m > Len(tasks) THEN <<>>
  ELSE <<Block("heading_3", <<"milestone", m>>)>>
         \o [t \in 1..tasks[m] |->
              Block("bulleted_list_item", <<"task", m, t>>)]
         \o MilestoneBlocks(tasks, m + 1)

\* lines 47-127: the blocks of the page, in the order they are pushed
ContentBlocks(objectives, assumptions, tasks) ==
  <<Block("heading_2", <<"Objectives">>)>>
    \o [i \in 1..objectives |->
         Block("bulleted_list_item", <<"objective", i>>)]
    \o <<Block("heading_2", <<"Scope Assumptions">>)>>
    \o [i \in 1..assumptions |->
         Block("bulleted_list_item", <<"assumption", i>>)]
    \o <<Block("heading_2", <<"Milestones & Tasks">>)>>
    \o MilestoneBlocks(tasks, 1)

\* (mutation of Slice: the chunk runs one block into the next)
SliceInclusive(blocks, from, to) ==
  SubSeq(blocks, from + 1, IF to + 1 < Len(blocks) THEN to + 1 ELSE Len(blocks))

\* blocks.slice(from, to)
Slice(blocks, from, to) ==
  SubSeq(blocks, from + 1, IF to < Len(blocks) THEN to ELSE Len(blocks))

NotionIdle ==
  [pc |-> "idle", created |-> FALSE, blocks |-> <<>>, i |-> 0,
   requests |-> <<>>, responses |-> <<>>, value |-> Undefined]

\* the for statement at index i: the next append request, or the return
AppendFrom(n, i) ==
  IF i < Len(n.blocks)
    THEN [n EXCEPT !.pc = "awaitAppend", !.i = i,
                   !.requests = Append(@, Slice(n.blocks, i, i + chunkSize))]
  ELSE [n EXCEPT !.pc = "resolved", !.i = i, !.value = "url"]

\* lines 3-38: createNotionPage up to the answer of the page request
NotionPageStart ==
  /\ notion.pc = "idle"
  /\ notion' = IF ~NOTION_API_KEY \/ ~NOTION_PARENT_PAGE_ID
                 THEN [notion EXCEPT !.pc = "rejected"]
               ELSE [notion EXCEPT !.pc = "awaitPage"]
  /\ UNCHANGED <<envVars, llmVars, routeVars, searchVars, validationVars,
                 kbVars, researchVars, enhancementVars, orchVars>>

\* lines 40-130: the page request is answered; the blocks are built and the
\* first append request is sent
NotionPageReturns ==
  /\ notion.pc = "awaitPage"
  /\ \E page \in FetchOutcomes, objectives \in ObjectiveCounts,
        assumptions \in AssumptionCounts, tasks \in TaskCounts :
       notion' = IF page # "ok" THEN [notion EXCEPT !.pc = "rejected"]
                 ELSE AppendFrom([notion EXCEPT
                                    !.created = TRUE,
                                    !.blocks = ContentBlocks(objectives,
                                                             assumptions, tasks)],
                                 0)
  /\ UNCHANGED <<envVars, llmVars, routeVars, searchVars, validationVars,
                 kbVars, researchVars, enhancementVars, orchVars>>

\* lines 133-152: an append request settles: a rejected fetch leaves the
\* routine, a non-ok answer is logged, and the loop goes on
NotionAppendReturns ==
  /\ notion.pc = "awaitAppend"
  /\ \E outcome \in FetchOutcomes :
       LET n == [notion EXCEPT !.responses = Append(@, outcome)]
       IN notion' = IF outcome = "reject" THEN [n EXCEPT !.pc = "rejected"]
                    ELSE AppendFrom(n, notion.i + chunkSize)
  /\ UNCHANGED <<envVars, llmVars, routeVars, searchVars, validationVars,
                 kbVars, researchVars, enhancementVars, orchVars>>

NextNotion ==
  \/ NotionPageStart
  \/ NotionPageReturns
  \/ NotionAppendReturns

NotionInit == notion = NotionIdle

(* ------------------------------------------------------------------ *)
(* Specifications                                                       *)
(* ------------------------------------------------------------------ *)
vars == <<envVars, llmVars, routeVars, searchVars, validationVars, kbVars,
          researchVars, enhancementVars, orchVars, notionVars>>

LLMInit ==
  /\ llmCalls = <<>>
  /\ llmRequests = <<>>

\* the handler before any request
RouteIdle ==
  /\ variant = "enhanced"
  /\ pc = "idle"
  /\ body = [kind |-> "malformed",
             project_idea |-> [type |-> Undefined, chars |-> <<>>],
             contributors |-> [type |-> Undefined, items |-> <<>>]]
  /\ interpretation = Unset
  /\ milestones = Unset
  /\ assignments = Unset
  /\ artifacts = Unset
  /\ notionUrl = Undefined
  /\ githubUrl = Undefined
  /\ response = NoResponse
  /\ inflight = {}
  /\ failed = [stage |-> "none", message |-> ""]
  /\ publishLog = <<>>

InitRoute ==
  /\ OPENAI_API_KEY \in BOOLEAN
  /\ NOTION_API_KEY \in BOOLEAN
  /\ NOTION_PARENT_PAGE_ID \in BOOLEAN
  /\ GITHUB_TOKEN \in BOOLEAN
  /\ SERPER_API_KEY = FALSE
  /\ LLMInit
  /\ RouteInit
  /\ SearchInit
  /\ ValidationInit
  /\ KBInit
  /\ ResearchInit
  /\ EnhancementInit
  /\ OrchInit
  /\ NotionInit

SpecRoute == InitRoute /\ [][NextRoute]_vars

InitSearch ==
  /\ OPENAI_API_KEY \in BOOLEAN
  /\ SERPER_API_KEY \in BOOLEAN
  /\ NOTION_API_KEY = FALSE
  /\ NOTION_PARENT_PAGE_ID = FALSE
  /\ GITHUB_TOKEN = FALSE
  /\ LLMInit
  /\ RouteIdle
  /\ SearchInit
  /\ ValidationInit
  /\ KBInit
  /\ ResearchInit
  /\ EnhancementInit
  /\ OrchInit
  /\ NotionInit

SpecSearch == InitSearch /\ [][NextSearch]_vars

InitValidation ==
  /\ OPENAI_API_KEY \in BOOLEAN
  /\ SERPER_API_KEY = FALSE
  /\ NOTION_API_KEY = FALSE
  /\ NOTION_PARENT_PAGE_ID = FALSE
  /\ GITHUB_TOKEN = FALSE
  /\ LLMInit
  /\ RouteIdle
  /\ SearchInit
  /\ ValidationInit
  /\ KBInit
  /\ ResearchInit
  /\ EnhancementInit
  /\ OrchInit
  /\ NotionInit

SpecValidation == InitValidation /\ [][NextValidation]_vars

InitKB ==
  /\ OPENAI_API_KEY = FALSE
  /\ SERPER_API_KEY = FALSE
  /\ NOTION_API_KEY = FALSE
  /\ NOTION_PARENT_PAGE_ID = FALSE
  /\ GITHUB_TOKEN = FALSE
  /\ LLMInit
  /\ RouteIdle
  /\ SearchInit
  /\ ValidationInit
  /\ KBInit
  /\ ResearchInit
  /\ EnhancementInit
  /\ OrchInit
  /\ NotionInit

SpecKB == InitKB /\ [][NextKB]_vars

\* The agents on their own: one invocation of one agent is followed, from a
\* process in which no agent has been invoked yet and the search credential
\* is configured (searches without it are followed in SpecSearch).
AgentsIdle ==
  /\ validation.pc = "idle"
  /\ research.pc = "idle"
  /\ enhancement.pc = "idle"
  /\ batch.pc = "idle"
  /\ searches = <<>>

NextAgents ==
  \/ AgentsIdle /\ ValidateProject
  \/ CriterionReturns
  \/ SuggestionsReturn
  \/ ReportReturns
  \/ \E topics \in ResearchTopicLists : AgentsIdle /\ ConductResearch(topics)
  \/ TopicReturns
  \/ ResearchSynthesisReturns
  \/ AgentsIdle /\ EnhanceProject
  \/ EnhancementPlanReturns
  \/ EnhancementCategoryReturns
  \/ EnhancedProjectReturns
  \/ ImprovementScoreReturns
  \/ \E queries \in ArraysUpTo(Queries, MaxSearches) :
       AgentsIdle /\ SearchMultipleQueries(queries)
  \/ \E t \in 1..MaxSearches : SerperReturns(t)
  \/ \E t \in 1..MaxSearches : AnalysisReturns(t)
  \/ BatchJoin
  \/ SynthesisReturns

InitAgents ==
  /\ OPENAI_API_KEY \in BOOLEAN
  /\ SERPER_API_KEY = TRUE
  /\ NOTION_API_KEY = FALSE
  /\ NOTION_PARENT_PAGE_ID = FALSE
  /\ GITHUB_TOKEN = FALSE
  /\ LLMInit
  /\ RouteIdle
  /\ SearchInit
  /\ ValidationInit
  /\ KBInit
  /\ ResearchInit
  /\ EnhancementInit
  /\ OrchInit
  /\ NotionInit

SpecAgents == InitAgents /\ [][NextAgents]_vars

InitOrchestrator ==
  /\ OPENAI_API_KEY \in BOOLEAN
  /\ SERPER_API_KEY \in BOOLEAN
  /\ NOTION_API_KEY = FALSE
  /\ NOTION_PARENT_PAGE_ID = FALSE
  /\ GITHUB_TOKEN = FALSE
  /\ LLMInit
  /\ RouteIdle
  /\ SearchInit
  /\ ValidationInit
  /\ KBInit
  /\ ResearchInit
  /\ EnhancementInit
  /\ OrchInit
  /\ NotionInit

SpecOrchestrator == InitOrchestrator /\ [][NextOrchestrator]_vars

InitNotion ==
  /\ OPENAI_API_KEY = TRUE
  /\ SERPER_API_KEY = FALSE
  /\ NOTION_API_KEY \in BOOLEAN
  /\ NOTION_PARENT_PAGE_ID \in BOOLEAN
  /\ GITHUB_TOKEN = FALSE
  /\ LLMInit
  /\ RouteIdle
  /\ SearchInit
  /\ ValidationInit
  /\ KBInit
  /\ ResearchInit
  /\ EnhancementInit
  /\ OrchInit
  /\ NotionInit

SpecNotion == InitNotion /\ [][NextNotion]_vars

\* runs in the two modes: a run, then the process started again with the
\* search credential the other way round
NextModes == NextOrchestrator \/ Restart
SpecModes == InitOrchestrator /\ [][NextModes]_vars

\* successive runs on one orchestrator; the search credential is absent,
\* where a run logs the most lines
InitRerun ==
  /\ InitOrchestrator
  /\ ~SERPER_API_KEY

NextRerun == NextOrchestrator \/ OrchestrateAgain
SpecRerun == InitRerun /\ [][NextRerun]_vars

(* ------------------------------------------------------------------ *)
(* Claims about the request handler (checked under SpecRoute)           *)
(* ------------------------------------------------------------------ *)
\* the request as the claims describe it, independently of the handler's tests
IdeaIsString == body.project_idea.type = "string"
IdeaMissingOrBlank ==
  \/ body.project_idea.type = Undefined
  \/ /\ IdeaIsString
     /\ \A i \in 1..Len(body.project_idea.chars) : body.project_idea.chars[i] = Space
ContributorsMissingOrEmpty ==
  \/ body.contributors.type = Undefined
  \/ body.contributors.type = "array" /\ Len(body.contributors.items) = 0
ValidRequest ==
  /\ body.kind = "object"
  /\ IdeaIsString /\ ~IdeaMissingOrBlank
  /\ body.contributors.type = "array" /\ Len(body.contributors.items) > 0

C2_Original ==
  (ValidRequest /\ pc = "done")
    => \/ response.status = 200 /\ response.title \notin {Absent, Null}
       \/ response.status = 500 /\ response.error \notin {Absent, Null}

\* C3: whatever the Notion publish did, the GitHub publish is attempted after
\* it; once the publish steps are reached the answer is a 200; a failed step's
\* URL is null in the answer and a successful step's URL is the one it returned.
C3_PublishStepsIsolated ==
  /\ Len(publishLog) <= 2
  /\ Len(publishLog) >= 1 => publishLog[1].step = "notion" /\ pc \in {"github", "done"}
  /\ Len(publishLog) = 1 => pc = "github" /\ ENABLED PublishGitHub
  /\ Len(publishLog) = 2 => publishLog[2].step = "github" /\ pc = "done"
  /\ (pc = "done" /\ publishLog # <<>>) =>
       /\ Len(publishLog) = 2
       /\ response.status = 200
       /\ response.notion_url =
            IF publishLog[1].result.threw THEN Null
            ELSE JsonField(publishLog[1].result.value)
       /\ response.github_url =
            IF publishLog[2].result.threw THEN Null
            ELSE JsonField(publishLog[2].result.value)

\* C3 witness: Notion failed, GitHub succeeded, answer 200
C3_Witness ==
  /\ pc = "done"
  /\ Len(publishLog) = 2
  /\ publishLog[1].result.threw
  /\ ~publishLog[2].result.threw
  /\ response.status = 200
  /\ response.notion_url = Null
  /\ response.github_url = "url"

StageIndex(stage) == CHOOSE i \in 1..Len(Stages) : Stages[i] = stage

\* C4: once a stage function has failed, the answer is a 500 carrying the
\* message of its error, no later stage has been started and no publish step
\* has been attempted.
C4_StageFailureIs500 ==
  failed.stage # "none" =>
    /\ pc = "done"
    /\ response.status = 500
    /\ response.error = failed.message
    /\ \A i \in 1..Len(llmCalls) : StageIndex(llmCalls[i]) <= StageIndex(failed.stage)
    /\ publishLog = <<>>

\* C4 witness: the third stage's request failed upstream
C4_Witness ==
  /\ failed.stage = "assignTasksAndTimeline"
  /\ failed.message = "OpenAI API error"
  /\ response.status = 500

\* C5: the completion calls are issued in stage order, one per stage, never
\* two at a time, and the publish steps are reached only with all four calls
\* issued and returned.
C5_StagesInOrder ==
  /\ Len(llmCalls) <= Len(Stages)
  /\ llmCalls = SubSeq(Stages, 1, Len(llmCalls))
  /\ Len(llmRequests) <= Len(llmCalls)
  /\ llmRequests = SubSeq(Stages, 1, Len(llmRequests))
  /\ Cardinality(inflight) <= 1
  /\ inflight # {} => inflight = {llmRequests[Len(llmRequests)]}
  /\ (pc \in {"notion", "github"} \/ publishLog # <<>>) =>
       /\ llmCalls = Stages
       /\ llmRequests = Stages
       /\ inflight = {}

\* C5 witness: a request that went through the four stages and was published
C5_Witness ==
  /\ pc = "done"
  /\ Len(publishLog) = 2
  /\ llmRequests = Stages

(* ------------------------------------------------------------------ *)
(* Claims about the Web Search agent (checked under SpecSearch)         *)
(* ------------------------------------------------------------------ *)
Tasks == 1..Len(searches)

TaskKey(task) == CacheKey(task.query, task.options)

\* C6: with no search credential configured, every search resolves and never
\* rejects; what it returns has an empty result list and the fixed analysis
\* whose summary is the configuration hint; no request goes to the search
\* provider and no completion call is made by any search.
C6_NoCredentialSearch ==
  ~SERPER_API_KEY =>
    /\ providerRequests = <<>>
    /\ \A t \in Tasks :
         /\ searches[t].settled # "rejected"
         /\ searches[t].requests = 0
         /\ searches[t].calls = 0
         /\ searches[t].sent = 0
         /\ searches[t].pc = "done" =>
              /\ searches[t].settled = "resolved"
              /\ searches[t].result.query = searches[t].query
              /\ searches[t].result.results = <<>>
              /\ searches[t].result.error = Undefined
              /\ searches[t].result.analysis.kind # "null"
              /\ searches[t].result.analysis.summary = ConfigurationHint

\* C6 witness: without the credential, a search that went through the
\* provider routine and the analysis has returned, and a later one has
\* returned from the cache.
C6_Witness ==
  /\ ~SERPER_API_KEY
  /\ \E t, u \in Tasks :
       /\ searches[t].pc = "done" /\ ~searches[t].hit
       /\ searches[u].pc = "done" /\ searches[u].hit

\* the failure record of a query
IsFailureRecord(r) ==
  /\ r.error # Undefined
  /\ r.results = <<>>
  /\ r.analysis = NullAnalysis

\* C7 as stated: whichever searches fail, searchMultipleQueries resolves,
\* with one entry per query in the order of the queries, a failure record
\* for every failing query and the search's own response for the others.
C7_Original ==
  /\ batch.pc # "rejected"
  /\ batch.pc = "resolved" =>
       /\ Len(batch.individualResults) = Len(batch.queries)
       /\ \A i \in 1..Len(batch.queries) :
            /\ batch.individualResults[i].query = batch.queries[i]
            /\ searches[batch.tasks[i]].threw
                 => IsFailureRecord(batch.individualResults[i])

\* C7 (amended): no failing provider or analysis call makes
\* searchMultipleQueries reject: it rejects only when its own synthesis
\* completion call fails, after every search has resolved.  When it resolves
\* there is exactly one entry per query, in the order of the queries; the entry
\* of a failing query is its failure record (non-null error, empty results,
\* null analysis), and the entry of any other query is the response of that
\* search, with no error.
C7_BatchIsolatesQueryFailures ==
  /\ \A t \in Tasks : searches[t].settled # "rejected"
  /\ batch.pc = "rejected" =>
       /\ batch.calls = 1
       /\ batch.message \in {LLMErrorMessage(o) :
                               o \in {"nokey"} \cup (SearchLLMOutcomes \ {"parsed"})}
       /\ \A i \in 1..Len(batch.tasks) :
            searches[batch.tasks[i]].settled = "resolved"
  /\ batch.pc \in {"awaitSynthesis", "resolved"} =>
       /\ batch.calls = 1 /\ batch.sent = 1
       /\ Len(batch.individualResults) = Len(batch.queries)
       /\ \A i \in 1..Len(batch.queries) :
            LET task == searches[batch.tasks[i]]
                entry == batch.individualResults[i]
            IN /\ entry.query = batch.queries[i]
               /\ entry = task.result
               /\ task.threw => IsFailureRecord(entry)
               /\ ~task.threw => entry.error = Undefined

\* C7 witness: a batch of two queries has resolved; one query failed and the
\* other did not.
C7_Witness ==
  /\ batch.pc = "resolved"
  /\ Len(batch.queries) = 2
  /\ \E i, j \in 1..2 :
       /\ searches[batch.tasks[i]].threw
       /\ ~searches[batch.tasks[j]].threw
       /\ IsFailureRecord(batch.individualResults[i])
       /\ batch.individualResults[j].error = Undefined

\* a search that completed successfully
Completed(task) ==
  task.pc = "done" /\ task.settled = "resolved" /\ ~task.threw

\* the invocations a step adds
NewTasks == (Len(searches) + 1)..Len(searches')

\* C8 as stated: a search with the query and options of an earlier
\* successfully completed search returns from the cache, with no provider
\* request and no completion call, and no cache entry is ever removed.
C8_Original ==
  [][/\ \A t \in NewTasks :
          (\E e \in Tasks : /\ Completed(searches[e])
                            /\ TaskKey(searches[e]) = TaskKey(searches'[t]))
            => /\ searches'[t].hit
               /\ searches'[t].requests = 0
               /\ searches'[t].calls = 0
     /\ \A k \in DOMAIN cache : k \in DOMAIN cache']_vars

\* C8 (amended): a search with the query and options of an earlier search
\* that stored its response, with no clearCache since, returns at once the
\* response held in the cache, which is the response object of such an
\* earlier search, and issues no provider request and no completion call.
\* Entries do not expire: an entry leaves the cache only through clearCache,
\* which removes all of them.
C8_CachedUntilCleared ==
  [][/\ \A t \in NewTasks :
          LET new == searches'[t]
              Earlier == {e \in Tasks : /\ searches[e].live
                                        /\ TaskKey(searches[e]) = TaskKey(new)}
          IN Earlier # {} =>
               /\ new.hit /\ new.pc = "done" /\ new.settled = "resolved"
               /\ new.requests = 0 /\ new.calls = 0 /\ new.sent = 0
               /\ \E e \in Earlier : new.result = searches[e].result
               /\ new.result = cache[TaskKey(new)]
     /\ Len(providerRequests') - Len(providerRequests)
          = Cardinality({t \in NewTasks : searches'[t].requests = 1})
     /\ \/ \A k \in DOMAIN cache : k \in DOMAIN cache'
        \/ cache' = <<>> /\ \A t \in Tasks : ~searches'[t].live]_vars

\* C8 witness: a search has returned the response that an earlier search with
\* the same key stored, without a request of its own.
C8_Witness ==
  \E e, t \in Tasks :
    /\ e < t
    /\ searches[e].live /\ ~searches[e].hit
    /\ TaskKey(searches[e]) = TaskKey(searches[t])
    /\ searches[t].hit /\ searches[t].requests = 0 /\ searches[t].calls = 0
    /\ searches[t].result = searches[e].result
    /\ searches[e].requests = 1

(* ------------------------------------------------------------------ *)
(* Claims about the Validation agent (checked under SpecValidation)     *)
(* ------------------------------------------------------------------ *)
\* the score a criterion result counts with: its score, or 0 without one
CountedScore(result) == IF result.hasScore THEN result.score ELSE 0

TotalScore ==
  Sum([i \in 1..Len(validation.results) |-> CountedScore(validation.results[i])])

\* all the criteria have their result: the score and the flag are set
Scored == Len(validation.results) = Len(validationCriteria)

\* C9 as stated: with the eight criterion scores in, overallScore is their
\* arithmetic mean and improvementNeeded is true exactly when the mean is
\* below 75; a result without a score counts as 0.
C9_Original ==
  Scored =>
    LET n == Len(validation.results)
    IN /\ n * validation.overallScore = TotalScore
       /\ validation.improvementNeeded <=> TotalScore < ImprovementThreshold * n

\* C9 (amended): with the eight criterion scores in, overallScore is their
\* arithmetic mean rounded to the nearest integer, halves upwards, and
\* improvementNeeded is true exactly when that rounded score is below 75,
\* that is when the mean is below 74.5; a result without a score counts as 0.
\* The suggestions are requested exactly when improvementNeeded is true.
C9_RoundedMean ==
  Scored =>
    LET n == Len(validation.results)
        score == validation.overallScore
    IN /\ n = 8
       /\ 2 * n * score - n <= 2 * TotalScore
       /\ 2 * TotalScore < 2 * n * score + n
       /\ validation.improvementNeeded <=> score < ImprovementThreshold
       /\ validation.improvementNeeded
            <=> 2 * TotalScore < (2 * ImprovementThreshold - 1) * n
       /\ (\A i \in 1..n : CountedScore(validation.results[i]) = 80)
            => score = 80 /\ ~validation.improvementNeeded
       /\ (\A i \in 1..n : CountedScore(validation.results[i]) = 0)
            => score = 0 /\ validation.improvementNeeded
       /\ validation.pc = "awaitSuggestions" => validation.improvementNeeded
       /\ validation.suggestions = "generated" => validation.improvementNeeded

\* C9 witness: validateProject has returned for eight integer scores whose
\* mean is 74.5: the overall score is 75 and no improvement is asked for.
C9_Witness ==
  /\ validation.pc = "resolved"
  /\ Scored
  /\ \A i \in 1..Len(validation.results) : validation.results[i].hasScore
  /\ 2 * TotalScore = (2 * ImprovementThreshold - 1) * Len(validation.results)
  /\ validation.overallScore = ImprovementThreshold
  /\ ~validation.improvementNeeded

(* ------------------------------------------------------------------ *)
(* Claims about the Knowledge Base (checked under SpecKB)               *)
(* ------------------------------------------------------------------ *)
\* storing an item whose key is in the map adds one to the entry's counter
StoreIncrements ==
  /\ \A type \in PatternTypes, pattern \in Payloads :
       LET key == generatePatternKey(pattern)
       IN storePattern(type, pattern) /\ key \in DOMAIN patterns
            => patterns'[key].occurrences = patterns[key].occurrences + 1
  /\ \A category \in InsightCategories, insight \in Payloads :
       LET key == generateInsightKey(insight)
       IN storeInsight(category, insight) /\ key \in DOMAIN insights
            => insights'[key].confidence = insights[key].confidence + 1
  /\ \A practice \in Payloads :
       LET key == generateBestPracticeKey(practice)
       IN storeBestPractice(practice) /\ key \in DOMAIN bestPractices
            => bestPractices'[key].effectiveness
                 = bestPractices[key].effectiveness + 1
  /\ \A learning \in Payloads :
       LET key == generateTechnologyKey(learning)
       IN storeTechnologyLearning(learning) /\ key \in DOMAIN technologies
            => technologies'[key].reliability = technologies[key].reliability + 1

\* every stored item stays stored, with a counter at least as high
NonDecreasing ==
  /\ \A k \in DOMAIN patterns :
       k \in DOMAIN patterns'
         /\ patterns'[k].occurrences >= patterns[k].occurrences
  /\ \A k \in DOMAIN insights :
       k \in DOMAIN insights'
         /\ insights'[k].confidence >= insights[k].confidence
  /\ \A k \in DOMAIN bestPractices :
       k \in DOMAIN bestPractices'
         /\ bestPractices'[k].effectiveness >= bestPractices[k].effectiveness
  /\ \A k \in DOMAIN technologies :
       k \in DOMAIN technologies'
         /\ technologies'[k].reliability >= technologies[k].reliability

\* a pattern-strength update with a "decreased" entry
IsDecay ==
  \E updates \in StrengthUpdateLists :
    /\ \E i \in 1..Len(updates) : updates[i].strength_change = "decreased"
    /\ updatePatternStrengths(updates)

\* C10 as stated: over any sequence of operations, storing a stored item adds
\* one to its counter, and outside a "decreased" pattern-strength update no
\* counter of a stored item decreases.
C10_Original ==
  [][StoreIncrements /\ (~IsDecay => NonDecreasing)]_vars

\* C10 (amended): storing a stored item adds one to its counter, and no store
\* and no pattern-strength update lowers the counter of a stored item or
\* removes the item: a "decreased" update multiplies the pattern's separate
\* confidence field by 0.9 and leaves its occurrences as they are.  Only
\* importKnowledge and clearKnowledge, which replace the maps, can lower or
\* remove a counter.
C10_CountersGrowUnlessReplaced ==
  [][/\ StoreIncrements
     /\ \/ \E knowledgeData \in ImportValues : importKnowledge(knowledgeData)
        \/ clearKnowledge
        \/ NonDecreasing
     /\ \A updates \in StrengthUpdateLists :
          updatePatternStrengths(updates) =>
            /\ DOMAIN patterns' = DOMAIN patterns
            /\ \A k \in DOMAIN patterns :
                 /\ patterns'[k].occurrences = patterns[k].occurrences
                 /\ patterns'[k].confidence.decreased
                      >= patterns[k].confidence.decreased]_vars

\* C10 witness: a pattern stored twice has gone through a "decreased" update:
\* its occurrences still count both stores.
C10_Witness ==
  \E k \in DOMAIN patterns :
    /\ patterns[k].occurrences = 2
    /\ patterns[k].confidence.defined
    /\ patterns[k].confidence.decreased = 1

(* ------------------------------------------------------------------ *)
(* Claims about the completion client (checked under SpecRoute)         *)
(* ------------------------------------------------------------------ *)
\* the messages of the errors callLLM throws before or after its request
ClientFailures ==
  {LLMErrorMessage(o) : o \in {"nokey", "reject", "notok", "unparsable"}}

\* C11: every invocation of callLLM sends at most one request: none without
\* the credential (the invocation fails at once), exactly one with it; a
\* non-success status or an unparsable body fails the invocation, which is the
\* last one of the handler: no request is sent again.
C11_OneRequestPerInvocation ==
  /\ ~OPENAI_API_KEY => llmRequests = <<>> /\ Len(llmCalls) <= 1
  /\ OPENAI_API_KEY => llmRequests = llmCalls
  /\ \A i, j \in 1..Len(llmRequests) : llmRequests[i] = llmRequests[j] => i = j
  /\ (~OPENAI_API_KEY /\ llmCalls # <<>>)
       <=> failed.message = LLMErrorMessage("nokey")
  /\ failed.message \in ClientFailures =>
       /\ pc = "done"
       /\ response = ErrorResponse(500, failed.message)
       /\ llmCalls[Len(llmCalls)] = failed.stage
       /\ failed.stage \notin inflight

\* C11 witness: with the credential, the second stage's only request was
\* answered with a body that does not parse, and the handler has answered.
C11_Witness ==
  /\ OPENAI_API_KEY
  /\ failed = [stage |-> "generateTasksAndMilestones",
               message |-> LLMErrorMessage("unparsable")]
  /\ llmCalls = <<"interpretProject", "generateTasksAndMilestones">>
  /\ llmRequests = llmCalls
  /\ pc = "done"

(* ------------------------------------------------------------------ *)
(* Claims about the orchestrator                                       *)
(* ------------------------------------------------------------------ *)

\* the events of a run that returns, without and with the Enhancement Agent
PhaseOrder(enhancing) ==
  <<Started("Analysis"), Ended("Analysis"), Started("Research"),
    Ended("Research"), Started("Generation"), Ended("Generation"),
    Started("Validation")>>
    \o (IF enhancing THEN <<Started("Enhancement"), Ended("Enhancement")>>
        ELSE <<>>)
    \o <<Ended("Validation"), Started("Done")>>

Range(s) == {s[i] : i \in DOMAIN s}

IsPrefix(s, t) == Len(s) <= Len(t) /\ SubSeq(t, 1, Len(s)) = s

\* the phase a run is in, by the statement it is at
PhaseOf(at) ==
  CASE at = "awaitAnalysis" -> Started("Analysis")
    [] at \in {"webSearch", "awaitSearches", "technicalResearch",
               "awaitTechnicalResearch", "marketAnalysis", "awaitMarketAnalysis",
               "technologyResearch", "awaitTechnologyResearch"}
         -> Started("Research")
    [] at = "awaitGeneration" -> Started("Generation")
    [] at = "awaitValidation" -> Started("Validation")
    [] at = "awaitEnhancement" -> Started("Enhancement")
    [] at = "awaitRecommendations" -> Ended("Validation")
    [] at = "resolved" -> Started("Done")

C12_InOrder ==
  /\ \E enhancing \in BOOLEAN : IsPrefix(orch.trace, PhaseOrder(enhancing))
  /\ orch.pc \notin {"idle", "rejected"} =>
       orch.trace[Len(orch.trace)] = PhaseOf(orch.pc)
  /\ orch.validated <= 1 /\ orch.enhanced <= orch.validated
  /\ orch.validated = 1 <=> Started("Validation") \in Range(orch.trace)
  /\ orch.enhanced = 1 <=> Started("Enhancement") \in Range(orch.trace)
  /\ Started("Generation") \notin Range(orch.trace) =>
       orch.plan = "none" /\ orch.finalProject = "none"
  /\ Ended("Research") \notin Range(orch.trace) =>
       \/ research.pc = "idle"
       \/ Started("Research") \in Range(orch.trace)
  /\ Started("Research") \notin Range(orch.trace) =>
       searches = <<>> /\ topicCalls = <<>>
  /\ Ended("Research") \in Range(orch.trace) =>
       research.pc = "idle" /\ \A t \in 1..Len(searches) : searches[t].pc = "done"

\* a run that failed stays failed: its trace, log and results no longer
\* change and no agent is invoked for it (a new process starts a new run)
C12_FailureEnds ==
  orch.pc = "rejected" =>
    \/ orch' = orch /\ searches' = searches /\ topicCalls' = topicCalls
         /\ research' = research /\ runs' = runs
    \/ orch'.pc = "idle" /\ orch'.trace = <<>> /\ SERPER_API_KEY' # SERPER_API_KEY

\* C12: a run passes through Analysis, Research, Generation, Validation
\* (with Enhancement inside it when it is invoked) and Done in this order,
\* each phase starting only after the previous one has completed, none
\* entered twice, and a failure in any phase ends the run with no retry and
\* no rollback.
C12_PhasesInOrder == []C12_InOrder /\ [][C12_FailureEnds]_vars

\* a run that went through every phase, Enhancement included, and one that
\* failed in a phase after the first
C12_Witness ==
  /\ orch.pc = "resolved"
  /\ orch.trace = PhaseOrder(TRUE)
  /\ orch.webSearches # <<>>
  /\ orch.research # <<>>

\* continuousImprovement has returned
Improved == Ended("Validation") \in Range(orch.trace)

\* C13: the Enhancement Agent is invoked exactly when the Validation Agent
\* reports improvementNeeded; when it is invoked its output is the final
\* plan, otherwise the final plan is the generated plan.
C13_EnhancedWhenNeeded ==
  /\ orch.enhanced = 1 => orch.improvementNeeded /\ orch.validated = 1
  /\ orch.pc = "awaitEnhancement" => orch.enhanced = 1
  /\ Improved =>
       /\ orch.plan = "generated"
       /\ orch.enhanced = (IF orch.improvementNeeded THEN 1 ELSE 0)
       /\ orch.finalProject = (IF orch.improvementNeeded THEN "enhanced"
                               ELSE orch.plan)
  /\ ~Improved => orch.finalProject = "none"

\* a run whose validation asked for improvement has returned the enhanced plan
C13_Witness ==
  /\ orch.pc = "resolved"
  /\ orch.improvementNeeded
  /\ orch.enhanced = 1
  /\ orch.finalProject = "enhanced"

\* C14: of two runs with the same analysis directives, the one with the
\* search credential (Full Agentic Mode) reports a confidence score at
\* least as high as the one without it (Basic Mode).
C14_Original ==
  \A i, j \in 1..Len(runs) :
    (runs[i].analysis = runs[j].analysis /\ runs[i].serper /\ ~runs[j].serper)
      => runs[i].confidenceScore >= runs[j].confidenceScore

(* ------------------------------------------------------------------ *)
(* Claims about the search cache and failures                          *)
(* ------------------------------------------------------------------ *)

\* a search that has ended in a failure record
EndedInFailure(task) == task.pc = "done" /\ IsFailureRecord(task.result)

\* C15: a search that ends in a failure record leaves the cache unchanged,
\* so no failure record is ever held in the cache, and a search started
\* after it with the same query and options, no search with that key having
\* stored a response, misses the cache and sends the provider request again.
C15_FailureNotCached ==
  [][/\ \A t \in Tasks :
          (~EndedInFailure(searches[t]) /\ EndedInFailure(searches'[t]))
            => cache' = cache
     /\ \A k \in DOMAIN cache' : ~IsFailureRecord(cache'[k])
     /\ \A u \in NewTasks :
          LET new == searches'[u]
              Same == {e \in Tasks : TaskKey(searches[e]) = TaskKey(new)}
          IN ((\E e \in Same : EndedInFailure(searches[e]))
                /\ (\A e \in Same : ~searches[e].live))
               => /\ ~new.hit
                  /\ new.pc = "awaitSerper"
                  /\ new.requests = 1
                  /\ \E i \in (Len(providerRequests) + 1)..Len(providerRequests') :
                       providerRequests'[i] = new.query]_vars

\* a search failed, and a later search with the same query and options
\* has sent its own provider request
C15_Witness ==
  \E t, u \in Tasks :
    /\ t < u
    /\ TaskKey(searches[t]) = TaskKey(searches[u])
    /\ EndedInFailure(searches[t])
    /\ searches[t].requests = 1
    /\ ~searches[u].hit
    /\ searches[u].requests = 1
    /\ Len(providerRequests) >= 2

(* ------------------------------------------------------------------ *)
(* Claims about the Research phase                                     *)
(* ------------------------------------------------------------------ *)

\* the web searches and the topic researches of the run so far
SearchedQueries == [t \in 1..Len(searches) |-> searches[t].query]
ResearchedTopics == [i \in 1..Len(topicCalls) |-> topicCalls[i].topic]

ResearchEnded == Ended("Research") \in Range(orch.trace)

\* C16 as stated: the Research phase has issued one web search per entry of
\* web_search_queries and one topic research per entry of research_needed,
\* and nothing else.
C16_Original ==
  ResearchEnded =>
    /\ SearchedQueries = orch.analysis.web_search_queries.items
    /\ ResearchedTopics = orch.analysis.research_needed.items

\* the topic researches of a whole Research phase: every entry in the
\* technical research, then the market entries, then the technology entries
ExpectedTopics(items) ==
  items \o SelectSeq(items, IsMarketTopic) \o SelectSeq(items, IsTechTopic)

\* C16 (amended): the Research phase issues exactly one web search per entry
\* of web_search_queries, in the order of the list.  It researches every
\* entry of research_needed once in the technical research, and again each
\* entry that names a market topic and again each entry that names a
\* technology topic, so an entry is researched one to three times; it
\* researches no topic that is not an entry of research_needed.
C16_ResearchFollowsAnalysis ==
  LET queries == orch.analysis.web_search_queries.items
      topics == orch.analysis.research_needed.items
  IN /\ IsPrefix(SearchedQueries, queries)
     /\ IsPrefix(ResearchedTopics, ExpectedTopics(topics))
     /\ \A i \in 1..Len(topicCalls) : topicCalls[i].topic \in Range(topics)
     /\ orch.pc \notin {"idle", "awaitAnalysis", "webSearch", "rejected"} =>
          SearchedQueries = queries
     /\ ResearchEnded =>
          /\ ResearchedTopics = ExpectedTopics(topics)
          /\ [i \in 1..Len(orch.research) |-> orch.research[i].topics]
               = SelectSeq(<<topics, SelectSeq(topics, IsMarketTopic),
                             SelectSeq(topics, IsTechTopic)>>,
                           LAMBDA list : list # <<>>)
          /\ \A t \in 1..Len(topics) :
               Cardinality({i \in 1..Len(topicCalls) :
                              topicCalls[i].topic = topics[t]}) \in 1..3

\* the Research phase has ended after researching its one topic, which
\* names a market and a technology, three times, and after one web search
\* per query
C16_Witness ==
  /\ ResearchEnded
  /\ orch.analysis.research_needed.items = <<MarketTechTopic>>
  /\ ResearchedTopics = <<MarketTechTopic, MarketTechTopic, MarketTechTopic>>
  /\ Len(orch.analysis.web_search_queries.items) = 2
  /\ Len(searches) = 2

(* ------------------------------------------------------------------ *)
(* Claims about the agents' item calls                                 *)
(* ------------------------------------------------------------------ *)

\* the item calls an invocation has issued and those that have settled, per
\* agent: criteria of validateProject, topics of conductResearch,
\* categories of enhanceProject
ValidationIssued == validation.criterion
ValidationSettled ==
  IF validation.pc = "awaitCriterion" THEN validation.criterion - 1
  ELSE validation.criterion
ResearchIssued == research.issued
ResearchSettled == research.completed
EnhancementIssued == Len(enhancement.dispatched)
EnhancementSettled == enhancement.completed

\* the item calls an invocation makes when none fails
EnhancementItems ==
  Cardinality({i \in 1..Len(enhancement.priorities) :
                 Applies(enhancement.priorities[i])})

BatchSynthesisIssued == batch.calls > 0
ReportIssued ==
  \/ validation.pc \in {"awaitReport", "resolved"}
  \/ validation.pc = "rejected" /\ validation.calls > Len(validationCriteria)
       /\ (validation.improvementNeeded => validation.suggestions = "generated")
ResearchSynthesisIssued == research.synthesisIssued

\* C18: in searchMultipleQueries, validateProject and conductResearch the
\* synthesis call is issued only after every item call of the invocation has
\* completed, and its input holds the result of every item: one response
\* per query in query order, one result per criterion, one result under
\* every topic.
C18_JoinBarrier ==
  /\ BatchSynthesisIssued =>
       /\ \A i \in 1..Len(batch.tasks) :
            /\ searches[batch.tasks[i]].pc = "done"
            /\ searches[batch.tasks[i]].settled = "resolved"
       /\ Len(batch.tasks) = Len(batch.queries)
  /\ batch.pc \in {"awaitSynthesis", "resolved"} =>
       /\ Len(batch.individualResults) = Len(batch.queries)
       /\ \A i \in 1..Len(batch.queries) :
            /\ batch.individualResults[i] = searches[batch.tasks[i]].result
            /\ batch.individualResults[i].query = batch.queries[i]
  /\ ReportIssued =>
       /\ ValidationSettled = Len(validationCriteria)
       /\ [i \in 1..Len(validation.results) |-> validation.results[i].criterion]
            = validationCriteria
  /\ ResearchSynthesisIssued =>
       /\ ResearchSettled = Len(research.topics)
       /\ ResearchIssued = Len(research.topics)
       /\ research.synthesisInput = research.individualResearch
       /\ ObjectKeys(research.synthesisInput) = Range(research.topics)
       /\ \A i \in 1..Len(research.synthesisInput) :
            LET entry == research.synthesisInput[i]
            IN /\ entry.value.topic = entry.key
               /\ research.topics[entry.value.call] = entry.key
  /\ ~ResearchSynthesisIssued => research.synthesisInput = <<>>

\* a batch of two queries is at its synthesis call with both responses, one
\* of them a failure record
C18_Witness ==
  /\ batch.pc = "awaitSynthesis"
  /\ Len(batch.queries) = 2
  /\ \A i \in 1..2 : searches[batch.tasks[i]].pc = "done"
  /\ batch.individualResults[1] = searches[batch.tasks[1]].result
  /\ batch.individualResults[2] = searches[batch.tasks[2]].result
  /\ \E i \in 1..2 : IsFailureRecord(batch.individualResults[i])

\* the messages of a failed completion call
CallFailures ==
  {LLMErrorMessage(outcome) : outcome \in {"nokey", "notok"}}

\* an item call of the invocation has failed: the awaited criterion, topic
\* or category settles and leaves no result
CriterionFails ==
  /\ validation.pc = "awaitCriterion" /\ validation' # validation
  /\ validation'.results = validation.results
TopicFails ==
  /\ research.pc = "awaitTopic" /\ research' # research
  /\ research'.individualResearch = research.individualResearch
CategoryFails ==
  /\ enhancement.pc = "awaitCategory" /\ enhancement' # enhancement
  /\ enhancement'.enhancements = enhancement.enhancements

\* the invocation has failed on an item call
ValidationFailedOnItem ==
  validation.pc = "rejected" /\ Len(validation.results) < validation.criterion
ResearchFailedOnItem ==
  research.pc = "rejected" /\ ~research.synthesisIssued
EnhancementFailedOnItem ==
  /\ enhancement.pc = "rejected"
  /\ enhancement.dispatched # <<>>
  /\ ~enhancement.generated

C19_Aborted ==
  /\ ValidationFailedOnItem =>
       /\ validation.message \in CallFailures
       /\ validation.calls = validation.criterion
       /\ validation.suggestions = "empty"
       /\ validation.report = Undefined
       /\ ~ReportIssued
  /\ ResearchFailedOnItem =>
       /\ research.message \in CallFailures
       /\ research.synthesisInput = <<>>
       /\ ResearchIssued = ResearchSettled
  /\ EnhancementFailedOnItem =>
       /\ enhancement.message \in CallFailures
       /\ ~enhancement.scored
       /\ enhancement.enhancedProject = "null"
       /\ EnhancementIssued = EnhancementSettled

C19_ItemFailureStep ==
  /\ CriterionFails =>
       /\ validation'.pc = "rejected"
       /\ validation'.message \in CallFailures
       /\ validation'.calls = validation.calls
  /\ TopicFails =>
       /\ research'.pc = "rejected"
       /\ research'.message \in CallFailures
       /\ research'.issued = research.issued
  /\ CategoryFails =>
       /\ enhancement'.pc = "rejected"
       /\ enhancement'.message \in CallFailures
       /\ enhancement'.dispatched = enhancement.dispatched
  /\ validation.pc = "rejected" => validation' = validation
  /\ research.pc = "rejected" => research' = research
  /\ enhancement.pc = "rejected" => enhancement' = enhancement

\* C19: when the completion call of one item fails in validateProject,
\* conductResearch or enhanceProject, the invocation fails with that call's
\* error there and then: it returns no result, and issues no further item
\* call and no synthesis, suggestion, generation or report call.
C19_ItemFailureAborts == []C19_Aborted /\ [][C19_ItemFailureStep]_vars

\* enhanceProject has failed on its second category, after the first was
\* applied
C19_Witness ==
  /\ EnhancementFailedOnItem
  /\ Len(enhancement.dispatched) = 2
  /\ enhancement.completed = 2
  /\ Len(enhancement.enhancements) = 1

(* ------------------------------------------------------------------ *)
(* Claims about the agents' checklists                                 *)
(* ------------------------------------------------------------------ *)

\* the item names an invocation has worked through, in order
DispatchedCategories ==
  [i \in 1..Len(enhancement.dispatched) |-> enhancement.dispatched[i].category]
ValidatedCriteria ==
  [i \in 1..Len(validation.results) |-> validation.results[i].criterion]

UrgentCategories(priorities) ==
  LET urgent == SelectSeq(priorities,
                          LAMBDA p : p.priority \in {"critical", "high"})
  IN [i \in 1..Len(urgent) |-> urgent[i].category]

GenericEnhancement ==
  <<"g", "e", "n", "e", "r", "i", "c", "E", "n", "h", "a", "n", "c", "e",
    "m", "e", "n", "t">>

AllDispatched ==
  {enhancement.dispatched[i] : i \in 1..Len(enhancement.dispatched)}
    \cup UNION {{enhancement.frames[f].dispatched[i] :
                   i \in 1..Len(enhancement.frames[f].dispatched)} :
                f \in 1..Len(enhancement.frames)}

\* C21: whatever category a plan names, applyEnhancementCategory dispatches
\* to one of the eight category handlers or to genericEnhancement, and
\* never to the agent's entry point: no enhanceProject invocation begins
\* inside another.
C21_Original ==
  /\ \A d \in AllDispatched :
       d.handler \in EnhancementMethods \cup {GenericEnhancement}
  /\ enhancement.frames = <<>>

(* ------------------------------------------------------------------ *)
(* Claims about the confidence score                                   *)
(* ------------------------------------------------------------------ *)

\* whether a line holds the word, read character by character
HoldsWord(line, word) ==
  \E from \in 1..(Len(line) - Len(word) + 1) :
    \A k \in 1..Len(word) : line[from + k - 1] = word[k]

\* the number of lines of a log that hold the word
LinesWith(log, word) ==
  Cardinality({i \in 1..Len(log) : HoldsWord(log[i], word)})

\* 20 per "research" line, 25 per "validation" line, 15 per "enhancement"
\* line
RawScore(log) ==
  20 * LinesWith(log, ResearchWord) + 25 * LinesWith(log, ValidationWord)
    + 15 * LinesWith(log, EnhancementWord)

\* a run has returned its result
Reported == orch.pc = "resolved"

\* C22: the confidence score a run reports is determined by the execution
\* log alone: it is min(100, 20 r + 25 v + 15 e) for the numbers r, v, e of
\* log lines holding "research", "validation", "enhancement", and it lies
\* in 0..100.
C22_ScoreFromLog ==
  Reported =>
    LET raw == RawScore(orch.executionLog)
    IN  /\ orch.confidenceScore = (IF raw > 100 THEN 100 ELSE raw)
        /\ orch.confidenceScore \in 0..100

\* a second run on the same orchestrator reports 100 where the sum is more
C22_Witness ==
  /\ Reported
  /\ RawScore(orch.executionLog) > 100
  /\ orch.confidenceScore = 100

\* the complexity assessments the analysis prompt asks for that occur
NamedComplexities ==
  {<<"l", "o", "w">>, <<"m", "e", "d", "i", "u", "m">>, <<"h", "i", "g", "h">>,
   <<"v", "e", "r", "y", "_", "h", "i", "g", "h">>}

C25_LogGrows == IsPrefix(orch.executionLog, orch.executionLog')

\* of the runs of one orchestrator that returned, a later one reports no
\* lower score
C25_ScoresRise ==
  \A i, j \in 1..Len(runs) :
    i < j => runs[i].confidenceScore <= runs[j].confidenceScore

\* C25: the execution log of an orchestrator only grows: every step,
\* a further orchestrateProjectGeneration call included, keeps the lines
\* logged before it; and the confidence scores its successive runs report
\* never decrease.
C25_LogAndScoreMonotone == [][C25_LogGrows]_vars /\ []C25_ScoresRise

\* two runs of one orchestrator have returned, the second with the log of
\* the first ahead of its own lines and with a higher score
C25_Witness ==
  /\ Len(runs) = 2
  /\ Reported
  /\ runs[1].confidenceScore < runs[2].confidenceScore
  /\ LinesWith(orch.executionLog, ValidationWord) = 2

(* ------------------------------------------------------------------ *)
(* Claims about a Research phase without topics                        *)
(* ------------------------------------------------------------------ *)

\* the run failed inside its Research phase
RejectedInResearch ==
  /\ orch.pc = "rejected"
  /\ Started("Research") \in Range(orch.trace)
  /\ ~ResearchEnded

\* C26: when the analysis names no research topics, research_needed being
\* absent or an empty list, the Research phase researches no topic, does
\* not fail, and ends with no technical research, market analysis or
\* technology research in its result.
C26_Original ==
  (orch.analysis.kind = "object"
     /\ ~NonEmptyList(orch.analysis.research_needed)) =>
    /\ topicCalls = <<>>
    /\ ~RejectedInResearch
    /\ ResearchEnded => orch.research = <<>>

(* ------------------------------------------------------------------ *)
(* Claims about overlapping searches                                   *)
(* ------------------------------------------------------------------ *)

\* the searches that ended
SearchEnded(t) == searches[t].pc = "done"

\* two searches with one cache key that both missed the cache
MissedTogether(t, u) ==
  /\ t # u
  /\ CacheKey(searches[t].query, searches[t].options)
       = CacheKey(searches[u].query, searches[u].options)
  /\ ~searches[t].hit
  /\ ~searches[u].hit

\* the search that ends in this step
SearchEnds(t) == ~SearchEnded(t) /\ searches'[t].pc = "done"

\* C27 as stated: of two searches with the same query and options that
\* both missed the cache, each has sent a provider request and made an
\* analysis call of its own, and when the later one ends the cache holds
\* its response.
C27_Original ==
  [][\A t, u \in 1..Len(searches) :
       (MissedTogether(t, u) /\ SearchEnded(u) /\ SearchEnds(t)) =>
         LET key == CacheKey(searches[t].query, searches[t].options)
         IN /\ searches'[t].requests = 1 /\ searches'[u].requests = 1
            /\ searches'[t].calls = 1 /\ searches'[u].calls = 1
            /\ key \in DOMAIN cache'
            /\ cache'[key] = searches'[t].result]_vars

\* a search begun in this step hits exactly when the cache holds its key,
\* whatever searches with that key are under way
C27_NoSharing ==
  Len(searches') = Len(searches) + 1 =>
    LET new == searches'[Len(searches')]
    IN /\ new.hit = (CacheKey(new.query, new.options) \in DOMAIN cache)
       /\ ~new.hit => new.requests = (IF SERPER_API_KEY THEN 1 ELSE 0)

\* a search that ends with a response stores it under its key, over what was
\* there; one that ends in a failure leaves the cache as it is
C27_LastWriter ==
  \A t \in 1..Len(searches) :
    SearchEnds(t) =>
      LET key == CacheKey(searches[t].query, searches[t].options)
          result == searches'[t].result
      IN IF searches'[t].threw THEN cache' = cache
         ELSE /\ key \in DOMAIN cache'
              /\ cache'[key] = result
              /\ result.ref = t
              /\ result.results # <<>> =>
                   searches'[t].calls = 1 /\ searches'[t].sent = 1

\* C27 (amended): searches for the same query and options that overlap are
\* not shared: each one begun while the key is not in the cache takes the
\* miss path and, with the credential, sends its own provider request; each
\* whose provider answer carries results makes its own analysis call.  The
\* cache is written only when a search ends with a response, over the entry
\* that is there, and not when it ends in a failure: after both have ended
\* the cache holds the response of the one that ended with a response last.
C27_OverlappingSearches == [][C27_NoSharing /\ C27_LastWriter]_vars

\* two searches with one key both missed and both stored a response; the
\* one begun first ended last, and the cache holds its response
C27_Witness ==
  /\ Len(searches) = 2
  /\ MissedTogether(1, 2)
  /\ SearchEnded(1) /\ SearchEnded(2)
  /\ ~searches[1].threw /\ ~searches[2].threw
  /\ searches[1].calls = 1 /\ searches[2].calls = 1
  /\ searches[1].requests = 1 /\ searches[2].requests = 1
  /\ cache[CacheKey(searches[1].query, searches[1].options)].ref = 1

(* ------------------------------------------------------------------ *)
(* Claims about the analysis a search returns                          *)
(* ------------------------------------------------------------------ *)

\* a search that went to the provider path and ended with a response
Answered(t) ==
  /\ SearchEnded(t)
  /\ ~searches[t].hit
  /\ ~searches[t].threw

\* C28: a search returns the fixed "unavailable" analysis exactly when the
\* search credential is absent; with the credential, a search that got the
\* provider's answer and returned a response made one analysis completion
\* call.
C28_Original ==
  \A t \in 1..Len(searches) :
    Answered(t) =>
      /\ (searches[t].result.analysis = UnavailableAnalysis) <=> ~SERPER_API_KEY
      /\ SERPER_API_KEY => searches[t].calls = 1 /\ searches[t].sent = 1

(* ------------------------------------------------------------------ *)
(* Claims about storing into the Knowledge Base                        *)
(* ------------------------------------------------------------------ *)

\* what a store leaves of a map: the entries under the other keys as they
\* were, no key gone, and under the item's key the entry that was there
\* with its counter one higher and its time stamp now, or else a first
\* entry
StoredInto(before, after, key, counter, stamp) ==
  /\ DOMAIN after = DOMAIN before \cup {key}
  /\ Cardinality(DOMAIN after) >= Cardinality(DOMAIN before)
  /\ \A k \in DOMAIN before : k # key => after[k] = before[k]
  /\ after[key][stamp] = now'
  /\ key \in DOMAIN before =>
       /\ after[key][counter] = before[key][counter] + 1
       /\ \A field \in DOMAIN after[key] \ {counter, stamp} :
            after[key][field] = before[key][field]

\* C29: an entry is identified by the hash of its item's serialized payload
\* alone, whatever the type or category it is stored with.  A store under
\* a key that is there only raises the counter by one and sets the time
\* stamp: payload and type or category stay those of the first store.  A
\* first store enters the item with its type or category.  No store
\* removes an entry or makes a map smaller.
C29_StoreKeepsFirst ==
  [][/\ \A type \in PatternTypes, pattern \in Payloads :
          storePattern(type, pattern) =>
            LET key == generatePatternKey(pattern)
            IN /\ StoredInto(patterns, patterns', key, "occurrences", "lastSeen")
               /\ key \notin DOMAIN patterns =>
                    /\ patterns'[key].pattern = pattern
                    /\ patterns'[key].type = type
     /\ \A category \in InsightCategories, insight \in Payloads :
          storeInsight(category, insight) =>
            LET key == generateInsightKey(insight)
            IN /\ StoredInto(insights, insights', key, "confidence", "lastUpdated")
               /\ key \notin DOMAIN insights =>
                    /\ insights'[key].insight = insight
                    /\ insights'[key].category = category
     /\ \A practice \in Payloads :
          storeBestPractice(practice) =>
            LET key == generateBestPracticeKey(practice)
            IN /\ StoredInto(bestPractices, bestPractices', key,
                             "effectiveness", "lastValidated")
               /\ key \notin DOMAIN bestPractices =>
                    bestPractices'[key].practice = practice
     /\ \A learning \in Payloads :
          storeTechnologyLearning(learning) =>
            LET key == generateTechnologyKey(learning)
            IN /\ StoredInto(technologies, technologies', key,
                             "reliability", "lastUpdated")
               /\ key \notin DOMAIN technologies =>
                    technologies'[key].learning = learning]_vars

\* one pattern entry, of the type of its first store, stored twice
C29_Witness ==
  /\ DOMAIN patterns = {generatePatternKey(<<"C">>)}
  /\ patterns[generatePatternKey(<<"C">>)].type = "success"
  /\ patterns[generatePatternKey(<<"C">>)].occurrences = 2
  /\ patterns[generatePatternKey(<<"C">>)].lastSeen = 2
  /\ now = 2

\* the counter of the stored item counts its stores: 1 after the first,
\* one more after each further one
CountsStores(before, after, key, counter) ==
  after[key][counter]
    = (IF key \in DOMAIN before THEN before[key][counter] + 1 ELSE 1)

\* C30: starting from an empty Knowledge Base, the strength counter of an
\* item equals the number of times it was stored, in every category: the
\* first store of an item leaves its counter (occurrences, confidence,
\* effectiveness, reliability) at 1 and every further store adds 1.
C30_Original ==
  [][/\ \A type \in PatternTypes, pattern \in Payloads :
          storePattern(type, pattern) =>
            CountsStores(patterns, patterns', generatePatternKey(pattern),
                         "occurrences")
     /\ \A category \in InsightCategories, insight \in Payloads :
          storeInsight(category, insight) =>
            CountsStores(insights, insights', generateInsightKey(insight),
                         "confidence")
     /\ \A practice \in Payloads :
          storeBestPractice(practice) =>
            CountsStores(bestPractices, bestPractices',
                         generateBestPracticeKey(practice), "effectiveness")
     /\ \A learning \in Payloads :
          storeTechnologyLearning(learning) =>
            CountsStores(technologies, technologies',
                         generateTechnologyKey(learning), "reliability")]_vars

(* ------------------------------------------------------------------ *)
(* Claims about the block appends of createNotionPage                  *)
(* ------------------------------------------------------------------ *)

\* the blocks of the append requests sent so far, request after request
RECURSIVE Sent(_)
Sent(requests) ==
  IF requests = <<>> THEN <<>> ELSE Head(requests) \o Sent(Tail(requests))

\* ceil(n / d)
Ceiling(n, d) == (n + d - 1) \div d

\* the requests carry the blocks in order, each block once, at most 100 to
\* a request, and a return has sent them all in ceil(n / 100) requests
InChunks ==
  /\ \A r \in 1..Len(notion.requests) : Len(notion.requests[r]) \in 1..100
  /\ IsPrefix(Sent(notion.requests), notion.blocks)
  /\ notion.pc = "resolved" =>
       /\ Sent(notion.requests) = notion.blocks
       /\ Len(notion.requests) = Ceiling(Len(notion.blocks), 100)
       /\ Len(notion.responses) = Len(notion.requests)
       /\ notion.value = "url"

\* after the append request r that failed, the next one was sent or, if it
\* was the last, the url returned
WentOnAfter(r) ==
  IF r < Ceiling(Len(notion.blocks), 100) THEN Len(notion.requests) > r
  ELSE notion.pc = "resolved"

\* C23 as stated: the blocks go out in requests of at most 100, each once
\* and in order, ceil(n / 100) requests in all, and an append request that
\* failed, by a non-ok answer or by a rejected fetch, stops neither the
\* requests after it nor the return of the page url.
C23_Original ==
  /\ InChunks
  /\ \A r \in 1..Len(notion.responses) :
       notion.responses[r] # "ok" => WentOnAfter(r)

\* C23 (amended): the blocks go out in requests of at most 100, each once
\* and in order; an append request answered with a non-ok status stops
\* neither the requests after it nor the return of the page url, so a
\* routine whose fetches all settle with an answer sends ceil(n / 100)
\* requests; an append request whose fetch rejects ends the routine with
\* that error, no further request is sent and no url returned.
C23_ChunkedAppends ==
  /\ InChunks
  /\ \A r \in 1..Len(notion.responses) :
       /\ notion.responses[r] = "notok" => WentOnAfter(r)
       /\ notion.responses[r] = "reject" =>
            /\ r = Len(notion.requests)
            /\ notion.pc = "rejected"
            /\ notion.value = Undefined
  /\ (notion.created /\ notion.pc = "rejected") =>
       /\ notion.responses # <<>>
       /\ notion.responses[Len(notion.responses)] = "reject"

\* 202 blocks went out in three requests, the first and the last answered
\* with a non-ok status, and the url was returned
C23_Witness ==
  /\ notion.pc = "resolved"
  /\ Len(notion.blocks) = 202
  /\ [r \in 1..Len(notion.requests) |-> Len(notion.requests[r])]
       = <<100, 100, 2>>
  /\ notion.responses = <<"notok", "ok", "notok">>
  /\ notion.value = "url"

====
